---- MODULE Spec2Model ----
(***************************************************************************)
(* Model of the particle-field engine of src/script.js (ParticleApp):      *)
(* the point selector (samplePoints), the layer stack and its asynchronous *)
(* artwork decode, the particle builder (createParticles), the debounced   *)
(* rebuild (scheduleUpdate / updateAllLayers) and the render loop          *)
(* (animate), the per-frame particle update (updateParticlesAnimation),    *)
(* the depth, scale and pointer handlers and the fill rasterizer.          *)
(*                                                                         *)
(* The specifications share the variables:                                 *)
(*   SpecSample   one call of createParticles on explicit candidate sets,  *)
(*                with the identity of every selected candidate;           *)
(*   Spec         the layer stack: import, decode completion and failure,  *)
(*                build, delete, visibility, "generate" rebuilds, render   *)
(*                ticks; particle collections are kept by their sizes;     *)
(*   SpecRebuild  rebuilds of the whole stack with failing decodes and     *)
(*                builds, and the render loop;                             *)
(*   SpecDebounce the live controls: scheduleUpdate with its 300 ms timer, *)
(*                updateAllLayers, and the rebuild it starts, with time;   *)
(*   SpecMotion   one built layer under the render ticks, with the depth,  *)
(*                scale, noise and pointer controls read by getSettings;   *)
(*   SpecUpdater  the per-frame updaters under either motion mode;         *)
(*   SpecSpring   the spring of the sand effect on one particle;           *)
(*   SpecBuild    repeated builds of one layer from the same candidates;   *)
(*   SpecSand     the sand-effect checkbox and the rebuilds it starts;     *)
(*   SpecRaster   the fill loop over the pixels of a drawn canvas;         *)
(*   SpecBatch    a batched build and the per-frame matrix writes;         *)
(*   SpecResource the material cache and the disposal of geometries and    *)
(*                materials by rebuilds, deletions and dispose;            *)
(*   SpecDisplace the noise / sine displacement of one particle;           *)
(*   SpecColor    the material colour of one particle;                     *)
(*   SpecDepth    a stack of two built layers under the depth control;     *)
(*   SpecOrder    the stack under drag-and-drop reordering;                *)
(*   SpecRace     one layer under rebuilds whose decodes overlap.          *)
(***************************************************************************)
EXTENDS Integers, Sequences, FiniteSets, TLC

(***************************************************************************)
(* Bounds of the model.                                                    *)
(***************************************************************************)
MaxFill == 4             \* SpecSample: fill candidates
MaxStroke == 2           \* SpecSample: outline candidates
MaxTarget == 4           \* SpecSample: settings.particleCount
MaxLayers == 2           \* layers ever created (state.nextLayerId - 1)
MaxInflight == 1         \* image decodes in flight for one layer
MaxRebuildTimers == 1    \* pending 100 ms timeouts of updateAllLayers
MaxFaultIndex == 1       \* particles built before an injected exception
MaxScheduleCalls == 3    \* SpecDebounce: calls of scheduleUpdate
MaxDebounceLayers == 1    \* SpecDebounce: layers ever created
MaxFrames == 2           \* SpecMotion: render ticks
MaxUpdaterFrames == 3    \* SpecUpdater: render ticks
MaxSpringFrames == 12    \* SpecSpring: render ticks
MaxBuildFill == 3        \* SpecBuild: fill candidates
MaxBuildStroke == 2      \* SpecBuild: outline candidates
MaxBuildTarget == 3      \* SpecBuild: settings.particleCount
MaxBuilds == 2           \* SpecBuild: builds of the layer
MaxSandLayers == 2       \* SpecSand: layers ever created
MaxCanvas == 4           \* SpecRaster: canvas width and height in pixels
MaxInk == 2              \* SpecRaster: pixels the artwork paints
MaxDensity == 2          \* SpecRaster: settings.particleDensity
MaxBatchFill == 3        \* SpecBatch: fill candidates
MaxBatchStroke == 2      \* SpecBatch: outline candidates
MaxBatchTarget == 3      \* SpecBatch: settings.particleCount
MaxBatchFrames == 2      \* SpecBatch: render ticks
MaxResLayers == 2        \* SpecResource: layers ever created
MaxDisplaceFrames == 3   \* SpecDisplace: render ticks
MaxOrderLayers == 4
MaxRaceInflight == 2
SmallFillPerColor == 1   \* artwork "small": fill candidates of each colour
SmallStroke == 1         \* artwork "small": outline candidates
BigFill == 400           \* artwork "big": fill candidates
BigStroke == 200         \* artwork "big": outline candidates

(***************************************************************************)
(* Program constants.                                                      *)
(***************************************************************************)
InstancedThreshold == 500   \* createParticles: points.length > 500
DebounceDelay == 300        \* scheduleUpdate: setTimeout(..., 300)

(***************************************************************************)
(* Helpers.                                                                *)
(***************************************************************************)
Min(a, b) == IF a <= b THEN a ELSE b

Range(s) == {s[i] : i \in DOMAIN s}

RECURSIVE GCD(_, _)
GCD(a, b) == IF b = 0 THEN a ELSE GCD(b, a % b)

RECURSIVE IsPow2(_)
IsPow2(n) == IF n <= 1 THEN n = 1 ELSE (n % 2 = 0 /\ IsPow2(n \div 2))

(***************************************************************************)
(* samplePoints (script.js 1607-1675).                                     *)
(*                                                                         *)
(* strokeRatio = strokePoints.length / points.length is a double, and      *)
(* strokeCount = Math.floor(targetCount * strokeRatio).  When the exact    *)
(* product T*O/N is not an integer it lies at least 1/N away from one, far *)
(* more than the rounding error, so the floor is exact.  When it is an     *)
(* integer and the ratio is not a dyadic fraction, the rounded product may *)
(* fall just below it (49 * (1/49) = 0.9999999999999999) and the floor is  *)
(* one less: both outcomes are possible.                                   *)
(***************************************************************************)
StrokeCountChoices(F, O, T) ==
  LET N     == F + O
      exact == (T * O) \div N
      den   == N \div GCD(O, N)
  IN  IF (T * O) % N = 0 /\ exact > 0 /\ ~IsPow2(den)
        THEN {exact, exact - 1}
        ELSE {exact}

\* Line 1623 with an off-by-one.
FillCountMutant(T, strokeCount) == T - strokeCount - 1

\* fillCount = targetCount - strokeCount (1623).
FillCount(T, strokeCount) == T - strokeCount

\* The index loop with an array in place of the Set: indices may repeat.
DrawIndicesMutant(n, k) == [1..k -> 1..n]

\* The indices a `while (set.size < k) set.add(floor(random() * n))` loop leaves
\* in the Set, in insertion order: any k distinct indices of 1..n.
DrawIndices(n, k) ==
  {s \in [1..k -> 1..n] : \A i, j \in 1..k : i # j => s[i] # s[j]}

\* points = fillPoints followed by strokePoints (the fill loop pushes first).
Points(fillPts, strokePts) == fillPts \o strokePts

\* A selection of targetCount points from the pooled candidates, without
\* the quotas per type.
SelectPointsMutant(fillPts, strokePts, T, strokeCount) ==
  LET points == fillPts \o strokePts
  IN  {[i \in DOMAIN ix |->
          [point |-> points[ix[i]], isStroke |-> ix[i] > Len(fillPts)]] :
       ix \in [1..T -> 1..Len(points)]}

\* The else branch of samplePoints (1620-1671) when Math.floor returned
\* strokeCount: the possible selections.
SelectPoints(fillPts, strokePts, T, strokeCount) ==
  LET points == Points(fillPts, strokePts)
      F == Len(fillPts)
      O == Len(strokePts)
      N == Len(points)
      fillCount == FillCount(T, strokeCount)
      nStroke == IF O > 0 THEN Min(strokeCount, O) ELSE 0
      nFill   == IF F > 0 THEN Min(fillCount, F) ELSE 0
      strokes == {[i \in DOMAIN ix |->
                     [point |-> strokePts[ix[i]], isStroke |-> TRUE]] :
                  ix \in DrawIndices(O, nStroke)}
      fills   == {[i \in DOMAIN ix |->
                     [point |-> fillPts[ix[i]], isStroke |-> FALSE]] :
                  ix \in DrawIndices(F, nFill)}
      fallback == {[i \in DOMAIN ix |->
                      [point |-> points[ix[i]], isStroke |-> FALSE]] :
                   ix \in DrawIndices(N, T)}
  IN  IF nStroke + nFill = 0 THEN fallback
      ELSE {s \o f : s \in strokes, f \in fills}

\* Every candidate, in the order of points (1610-1618).
AllPoints(fillPts, strokePts) ==
  LET points == Points(fillPts, strokePts)
  IN  [i \in 1..Len(points) |->
         [point |-> points[i], isStroke |-> points[i] \in Range(strokePts)]]

\* The possible results of samplePoints: sequences of [point, isStroke].
SamplePoints(fillPts, strokePts, T) ==
  IF Len(fillPts) + Len(strokePts) <= T
    THEN {AllPoints(fillPts, strokePts)}
    ELSE UNION {SelectPoints(fillPts, strokePts, T, strokeCount) :
                strokeCount \in StrokeCountChoices(Len(fillPts), Len(strokePts), T)}

\* The sizes of the two parts of a result, as samplePoints' loops bound them.
SampleCounts(F, O, T) ==
  IF F + O <= T
    THEN {[stroke |-> O, fill |-> F]}
    ELSE {LET s == IF O > 0 THEN Min(strokeCount, O) ELSE 0
              f == IF F > 0 THEN Min(FillCount(T, strokeCount), F) ELSE 0
          IN  IF s + f = 0 THEN [stroke |-> 0, fill |-> T]
                           ELSE [stroke |-> s, fill |-> f] :
          strokeCount \in StrokeCountChoices(F, O, T)}

VARIABLES
  fillPoints,      \* SpecSample: the fill candidates (point ids)
  strokePoints,    \* SpecSample: the outline candidates (point ids)
  sampledPoints,   \* SpecSample: the result of samplePoints
  samplePc,        \* SpecSample: "start", "sampled", "built"
  sampleCount,     \* SpecSample: layer.particleCount of the layer being built
  layers,          \* state.layers: the stack, a sequence of layer ids
  layerObj,        \* the layer objects ever created, by id (closures keep them)
  nextLayerId,     \* state.nextLayerId
  inflight,        \* per layer id: the image decodes in flight (img.src set)
  materialCache,   \* resourceCache.materialCache: its keys <<colour, type>>
  dropHidden,      \* dom.dropArea has class "hidden"
  notification,    \* dom.notification.textContent
  particleCount,   \* state.particleCount (the on-screen statistic)
  rebuildTimers,   \* pending setTimeout(..., 100) of update/generateAllLayers
  rafPending,      \* an animation frame is requested
  tickRaised,      \* the latest render tick raised an exception
  ctlParticleCount,\* value of the particle-count control (settings.particleCount)
  ctlInstanced,    \* dom.useInstancedRenderingCheckbox.checked
  pendingUpdate,   \* scheduleUpdate's pendingUpdate
  updateTimeout,   \* scheduleUpdate's updateTimeout: a timer id, 0 when undefined
  debounceTimers,  \* the pending timers set by scheduleUpdate: [id, left]
  nextTimerId,     \* the id the next setTimeout of scheduleUpdate returns
  sinceCall,       \* ms since the latest call of scheduleUpdate (-1: none yet)
  burstCalls,      \* calls of scheduleUpdate in the current burst
  burstFires,      \* updateAllLayers runs of the debounce in the current burst
  ctlNoise,        \* the noise-movement checkbox is checked
  ctlMouse,        \* the mouse-interaction checkbox is checked
  ctlSand,         \* the sand-effect checkbox is checked
  ctlDepth,        \* value of the svg-depth control
  ctlScale,        \* value of the svg-scale control
  mouseMoved,      \* state.mouseMoved
  mousePosition,   \* state.mousePosition: "origin" (0, 0, 0) or "point"
  particleData,    \* per layer id: the animation data of its particles
  frames,          \* render ticks that ran updateParticlesAnimation
  springPos,       \* SpecSpring: position minus originalPosition, in 1/10000
  springVel,       \* SpecSpring: data.velocity, in 1/10000
  ctlSandReturn,   \* SpecSpring: value of the sand-return control
  ctlGradient,     \* the use-gradient checkbox is checked
  ctlPreserve,     \* the preserve-colors checkbox is checked
  strokeQuota,     \* SpecBuild: strokeCount as Math.floor returns it
  builtParticles,  \* SpecBuild: the particles of the latest build
  buckets,         \* SpecBuild: per build, the particle count per colour key
  batchMeshes,     \* SpecBatch: the InstancedMesh children of the group
  batchData,       \* SpecBatch: layer.instanceData
  batchPc,         \* SpecBatch: "idle", "sampled" or "built"
  resCache,        \* SpecResource: entries of resourceCache.materialCache
  resDisposables,  \* SpecResource: resourceCache.disposables
  resLayers,       \* SpecResource: the layers ever created
  resIssued,       \* SpecResource: (key, material) pairs createOrGetMaterial returned
  resNextMaterial, \* SpecResource: materials constructed so far, plus 1
  resDisposed,     \* SpecResource: resources the latest handler disposed
  resTornDown,     \* SpecResource: dispose() has run
  dispParticle,    \* SpecDisplace: one particle along one axis
  colInput,        \* SpecColor: the colour settings and one selected point
  colMaterial,     \* SpecColor: colour channel of the particle's material
  depthCall,       \* SpecDepth: "none", or how the latest updateLayersDepth ended
  orderLayers,     \* SpecOrder: state.layers, as the sequence of layer ids
  orderScene,      \* SpecOrder: the layer groups among state.scene.children, in order
  orderNextId,     \* SpecOrder: state.nextLayerId
  orderLast,       \* SpecOrder: <<>>, or the stack and indices of the latest reorderLayer call
  image,           \* SpecRaster: alpha of each pixel of the canvas
  ctlDensity,      \* SpecRaster: the particle-density control
  rasterPc,        \* SpecRaster: "idle", "drawn" or "sampled"
  rasterFill       \* SpecRaster: fillPoints as the fill loop leaves it

sampleVars == <<fillPoints, strokePoints, sampledPoints, samplePc, sampleCount>>

stackVars == <<layers, layerObj, nextLayerId, inflight, materialCache, dropHidden,
               notification, particleCount, rebuildTimers>>

renderVars == <<rafPending, tickRaised>>

ctlVars == <<ctlParticleCount, ctlInstanced>>

debounceVars == <<pendingUpdate, updateTimeout, debounceTimers, nextTimerId,
                  sinceCall, burstCalls, burstFires>>

motionVars == <<ctlNoise, ctlMouse, ctlSand, ctlDepth, ctlScale, mouseMoved, mousePosition,
                particleData, frames>>

\* The variables of the specifications of one function each.
springVars == <<springPos, springVel, ctlSandReturn>>

buildVars == <<ctlGradient, ctlPreserve, strokeQuota, builtParticles, buckets>>

rasterVars == <<image, ctlDensity, rasterPc, rasterFill>>

batchVars == <<batchMeshes, batchData, batchPc>>

resVars == <<resCache, resDisposables, resLayers, resIssued, resNextMaterial,
             resDisposed, resTornDown>>

dispVars == <<dispParticle>>

colVars == <<colInput, colMaterial>>

depthVars == <<depthCall>>

orderVars == <<orderLayers, orderScene, orderNextId, orderLast>>

unitVars == <<springVars, buildVars, rasterVars, batchVars, resVars, dispVars, colVars, depthVars, orderVars>>

vars == <<sampleVars, stackVars, renderVars, ctlVars, debounceVars, motionVars,
          unitVars>>

(***************************************************************************)
(* Artwork.  An artwork is what an imported SVG string rasterizes to: it   *)
(* either fails to decode (img.onerror) or yields candidate points, here   *)
(* counted per resolved colour and per type ("fill" / "stroke").           *)
(***************************************************************************)
Artworks == {"bad", "small", "big"}

TargetCounts == {InstancedThreshold, InstancedThreshold + BigStroke}

Colours == {"c1", "c2"}

Decodes(a) == a # "bad"

CandidateCount(a, c, t) ==
  CASE a = "small" /\ t = "fill"                -> SmallFillPerColor
    [] a = "small" /\ t = "stroke" /\ c = "c1"  -> SmallStroke
    [] a = "big" /\ t = "fill" /\ c = "c1"      -> BigFill
    [] a = "big" /\ t = "stroke" /\ c = "c1"    -> BigStroke
    [] OTHER                                    -> 0

TypeTotal(a, t) == CandidateCount(a, "c1", t) + CandidateCount(a, "c2", t)

\* The sets of colours that k points drawn from the candidates of type t can show.
ColourSets(a, t, k) ==
  {C \in SUBSET Colours :
     /\ \A c \in C : CandidateCount(a, c, t) > 0
     /\ IF k = 0 THEN C = {}
        ELSE /\ C # {}
             /\ Cardinality(C) <= k
             /\ k <= (IF "c1" \in C THEN CandidateCount(a, "c1", t) ELSE 0)
                   + (IF "c2" \in C THEN CandidateCount(a, "c2", t) ELSE 0)}

\* The colour keys `${color}_${type}` of the selected points.
BucketChoices(a, sc) ==
  {{<<c, "fill">> : c \in Cf} \cup {<<c, "stroke">> : c \in Cs} :
     Cf \in ColourSets(a, "fill", sc.fill), Cs \in ColourSets(a, "stroke", sc.stroke)}

(***************************************************************************)
(* Layers.  particles, instanceData and children are the lengths of        *)
(* layer.particles, layer.instanceData and layer.group.children; built is  *)
(* the kind of objects the group holds.  requested and lastBuild record    *)
(* what asked for the latest decode and how the latest one ended; snap and *)
(* used record the particle-count setting when the latest build was asked  *)
(* for and the one the build read.                                         *)
(***************************************************************************)
NewLayer(a) ==
  [art |-> a, visible |-> TRUE, useInstanced |-> ctlInstanced,
   particles |-> 0, instanceData |-> 0, children |-> 0, particleCount |-> 0,
   built |-> "none", requested |-> "import", lastBuild |-> "none",
   snap |-> 0, used |-> 0]

ClearLayerParticles(L) ==
  [L EXCEPT !.children = 0, !.particles = 0, !.instanceData = 0,
            !.particleCount = 0, !.built = "none"]

\* A deleted layer that no pending callback refers to: nothing can reach it
\* any more, and one record stands for all of them.
Collected ==
  [art |-> "bad", visible |-> FALSE, useInstanced |-> FALSE,
   particles |-> 0, instanceData |-> 0, children |-> 0, particleCount |-> 0,
   built |-> "none", requested |-> "none", lastBuild |-> "none",
   snap |-> 0, used |-> 0]

\* updateParticleCountDisplay (1299-1312): the sum over the visible layers.
RECURSIVE SumVisible(_, _)
SumVisible(stack, objs) ==
  IF stack = <<>> THEN 0
  ELSE (IF objs[Head(stack)].visible THEN objs[Head(stack)].particleCount ELSE 0)
       + SumVisible(Tail(stack), objs)

RemoveId(stack, id) == SelectSeq(stack, LAMBDA x : x # id)

\* createParticles, line 1581.
UseInstanced(L, nPoints) == L.useInstanced /\ nPoints > InstancedThreshold

\* createInstancedParticles called from createParticles' try block.  Without
\* an exception the meshes of the buckets K and n particles are added and
\* createParticles sets layer.particleCount.  With an exception while the
\* particles are placed (1751-1819), after k of them, the catch of
\* createParticles shows the notification and particleCount is not set.
InstancedOutcomes(L, K, n, snap, T, fault) ==
  IF ~fault
    THEN {[layer |-> [L EXCEPT !.children = @ + Cardinality(K), !.particles = n,
                               !.instanceData = n, !.particleCount = n,
                               !.built = "instanced", !.lastBuild = "ok",
                               !.snap = snap, !.used = T],
           mats |-> K, notify |-> FALSE]}
    ELSE {[layer |-> [L EXCEPT !.children = @ + Cardinality(K), !.particles = k,
                               !.instanceData = k, !.built = "instanced",
                               !.lastBuild = "buildError", !.snap = snap,
                               !.used = T],
           mats |-> K, notify |-> TRUE] : k \in 0..Min(n - 1, MaxFaultIndex)}

\* The colour keys of the first k selected points, of which K are the keys
\* of all: samplePoints pushes the outline points first when it selects
\* and the fill points first when it takes every candidate.
FirstBuckets(a, sc, K, k, T) ==
  LET selects == TypeTotal(a, "fill") + TypeTotal(a, "stroke") > T
      first   == IF selects THEN "stroke" ELSE "fill"
      second  == IF selects THEN "fill" ELSE "stroke"
      k1      == Min(k, IF selects THEN sc.stroke ELSE sc.fill)
      Pick(t, cnt) == {C \in ColourSets(a, t, cnt) : \A c \in C : <<c, t>> \in K}
  IN  {{<<c, first>> : c \in C1} \cup {<<c, second>> : c \in C2} :
         C1 \in Pick(first, k1), C2 \in Pick(second, k - k1)}

\* createTraditionalParticles: with an exception after k particles its own
\* try/catch swallows it (1902-1904) and createParticles goes on to set
\* layer.particleCount to the number of selected points (line 1597).
TraditionalOutcomes(L, K, sc, snap, T, fault) ==
  LET n == sc.stroke + sc.fill
  IN  IF ~fault
        THEN {[layer |-> [L EXCEPT !.children = @ + n, !.particles = n,
                                   !.particleCount = n, !.built = "traditional",
                                   !.lastBuild = "ok", !.snap = snap, !.used = T],
               mats |-> K, notify |-> FALSE]}
        ELSE UNION {{[layer |-> [L EXCEPT !.children = @ + k, !.particles = k,
                                          !.particleCount = n,
                                          !.built = IF k = 0 THEN @ ELSE "traditional",
                                          !.lastBuild = "buildError", !.snap = snap,
                                          !.used = T],
                      mats |-> J, notify |-> FALSE] :
                       J \in FirstBuckets(L.art, sc, K, k, T)} :
                    k \in 0..Min(n - 1, MaxFaultIndex)}

\* createParticles (1578-1602) for layer object L, with settings.particleCount = T;
\* fault: an exception is raised while the particles are constructed.
CreateParticles(L, snap, T, fault) ==
  LET F == TypeTotal(L.art, "fill")
      O == TypeTotal(L.art, "stroke")
  IN  UNION {UNION {IF UseInstanced(L, F + O)
                      THEN InstancedOutcomes(L, K, sc.stroke + sc.fill, snap, T, fault)
                      ELSE TraditionalOutcomes(L, K, sc, snap, T, fault) :
                    K \in BucketChoices(L.art, sc)} :
             sc \in SampleCounts(F, O, T)}

(***************************************************************************)
(* The handlers.                                                           *)
(***************************************************************************)

\* createParticlesFromSVGString (1350-1543), its synchronous part, for the
\* layers in `ids`: an Image is created and img.src set.  snap is the value
\* of the particle-count control that goes with the request.
StartDecodes(objs, flights, ids, how, snap) ==
  [objs2 |-> [i \in DOMAIN objs |->
                IF i \in ids
                  THEN [objs[i] EXCEPT !.requested = how, !.lastBuild = "none"]
                  ELSE objs[i]],
   flights2 |-> [i \in DOMAIN flights |->
                   IF i \in ids THEN Append(flights[i], snap) ELSE flights[i]]]

\* FileReader.onload of readSVGFile (787-805): createLayer, processLayerSVG,
\* then the drop area is hidden.
ReadSVGFile(a) ==
  LET id   == nextLayerId
      objs == Append(layerObj, NewLayer(a))
      st   == StartDecodes(objs, Append(inflight, <<>>), {id}, "import",
                           ctlParticleCount)
  IN  /\ nextLayerId' = nextLayerId + 1
      /\ layers' = Append(layers, id)
      /\ layerObj' = st.objs2
      /\ inflight' = st.flights2
      /\ particleCount' = SumVisible(layers', layerObj')
      /\ dropHidden' = TRUE
      /\ UNCHANGED <<materialCache, notification, rebuildTimers>>

\* img.onload (1369-1524) of a decode started for layer id: getSettings is
\* called here (1397), then createParticles.
ImgOnLoad(id, fault) ==
  /\ id \in DOMAIN inflight
  /\ inflight[id] # <<>>
  /\ Decodes(layerObj[id].art)
  /\ \E k \in DOMAIN inflight[id] :
       \E out \in CreateParticles(layerObj[id], inflight[id][k], ctlParticleCount,
                                  fault) :
         /\ layerObj' = [layerObj EXCEPT ![id] = out.layer]
         /\ materialCache' = materialCache \cup out.mats
         /\ notification' = IF out.notify THEN "Error creating particles."
                                          ELSE notification
         /\ inflight' = [inflight EXCEPT ![id] =
                           SubSeq(@, 1, k - 1) \o SubSeq(@, k + 1, Len(@))]
  /\ UNCHANGED <<layers, nextLayerId, dropHidden, particleCount, rebuildTimers>>

\* img.onerror (1526-1535).
ImgOnError(id) ==
  /\ id \in DOMAIN inflight
  /\ inflight[id] # <<>>
  /\ ~Decodes(layerObj[id].art)
  /\ inflight' = [inflight EXCEPT ![id] = Tail(@)]
  /\ layerObj' = [layerObj EXCEPT ![id].lastBuild = "decodeError"]
  /\ notification' = "Error loading SVG. File may be corrupted."
  /\ dropHidden' = FALSE
  /\ UNCHANGED <<layers, nextLayerId, materialCache, particleCount, rebuildTimers>>

\* deleteLayer (1192-1235).  Decodes in flight are not cancelled: their
\* callbacks keep the layer object.
DeleteLayer(id) ==
  /\ id \in Range(layers)
  /\ layerObj' = [layerObj EXCEPT ![id] =
                    IF inflight[id] = <<>> THEN Collected
                                           ELSE ClearLayerParticles(@)]
  /\ layers' = RemoveId(layers, id)
  /\ dropHidden' = IF layers' = <<>> THEN FALSE ELSE dropHidden
  /\ particleCount' = SumVisible(layers', layerObj')
  /\ UNCHANGED <<nextLayerId, inflight, materialCache, notification, rebuildTimers>>

\* toggleLayerVisibility (1160-1187).
ToggleLayerVisibility(id) ==
  /\ id \in Range(layers)
  /\ layerObj' = [layerObj EXCEPT ![id].visible = ~@]
  /\ particleCount' = SumVisible(layers, layerObj')
  /\ UNCHANGED <<layers, nextLayerId, inflight, materialCache, dropHidden,
                 notification, rebuildTimers>>

\* updateAllLayers (633-660), and generateAllLayers (751-777) when there are
\* layers: a 100 ms timeout is set.  It is kept with the particle-count
\* setting in force when it was set.
UpdateAllLayers ==
  IF layers = <<>>
    THEN UNCHANGED rebuildTimers
    ELSE rebuildTimers' = Append(rebuildTimers, ctlParticleCount)

\* The click handler of the generate button (304, 751-777).
GenerateAllLayers ==
  /\ UpdateAllLayers
  /\ notification' = IF layers = <<>> THEN "Please upload an SVG file first."
                                      ELSE notification
  /\ UNCHANGED <<layers, layerObj, nextLayerId, inflight, materialCache, dropHidden,
                 particleCount>>

\* A rebuild that stops after the first layer.
RebuiltLayersMutant(stack) == {stack[i] : i \in DOMAIN stack \cap {1}}

\* The layers that state.layers.forEach(updateLayer) reaches (642-644).
RebuiltLayers(stack) == Range(stack)

\* The timeout callback of updateAllLayers / generateAllLayers (641-659,
\* 759-776): updateLayer (909-920) on every layer, then the statistic.
\* Taken while every layer has fewer than maxFlights decodes in flight.
RebuildTimeoutWithin(maxFlights) ==
  /\ rebuildTimers # <<>>
  /\ LET ids     == RebuiltLayers(layers)
         cleared == [i \in DOMAIN layerObj |->
                       IF i \in ids
                         THEN [ClearLayerParticles(layerObj[i])
                                 EXCEPT !.useInstanced = ctlInstanced]
                         ELSE layerObj[i]]
         st      == StartDecodes(cleared, inflight, ids, "rebuild",
                                 Head(rebuildTimers))
     IN  /\ \A i \in ids : Len(inflight[i]) < maxFlights
         /\ layerObj' = st.objs2
         /\ inflight' = st.flights2
  /\ particleCount' = SumVisible(layers, layerObj')
  /\ rebuildTimers' = Tail(rebuildTimers)
  /\ UNCHANGED <<layers, nextLayerId, materialCache, dropHidden, notification>>

RebuildTimeout == RebuildTimeoutWithin(MaxInflight)

\* requestAnimationFrame moved to the end of an unprotected body.
AnimateRequestsNextMutant(fault) == ~fault

\* animate (2317-2344): the next frame is requested first, then the body
\* runs inside try/catch; `fault` is an exception in updateParticlesAnimation
\* or in the renderer.
AnimateRequestsNext(fault) == TRUE

Animate(fault) ==
  /\ rafPending
  /\ rafPending' = AnimateRequestsNext(fault)
  /\ tickRaised' = fault

(***************************************************************************)
(* The debounce.  Time is counted in ms and advances by a third of the     *)
(* debounce delay; a timer's `left` is the time until it is due.  A timer  *)
(* that is due runs before time advances and before a later input event is *)
(* handled.                                                                *)
(***************************************************************************)
TimeStep == DebounceDelay \div 3

\* scheduleUpdate without its clearTimeout.
ClearTimeoutMutant(timers, id) == timers

\* clearTimeout(id): a no-op when no pending timer has that id.
ClearTimeout(timers, id) == {t \in timers : t.id # id}

NoTimerDue == \A t \in debounceTimers : t.left > 0

\* scheduleUpdate (620-628), the part that runs at the call.
ScheduleUpdate ==
  LET kept == IF pendingUpdate THEN ClearTimeout(debounceTimers, updateTimeout)
                               ELSE debounceTimers
  IN  /\ debounceTimers' = kept \cup {[id |-> nextTimerId, left |-> DebounceDelay]}
      /\ updateTimeout' = nextTimerId
      /\ nextTimerId' = nextTimerId + 1
      /\ pendingUpdate' = TRUE
      /\ burstCalls' = IF sinceCall < 0 \/ sinceCall >= DebounceDelay
                         THEN 1 ELSE burstCalls + 1
      /\ burstFires' = IF sinceCall < 0 \/ sinceCall >= DebounceDelay
                         THEN 0 ELSE burstFires
      /\ sinceCall' = 0

\* The input / change listener of a live control (407-452): the control
\* takes the value v (v unchanged: another live control moved), then
\* scheduleUpdate.
LiveInput(v) ==
  /\ ctlParticleCount' = v
  /\ ScheduleUpdate
  /\ UNCHANGED <<stackVars, ctlInstanced>>

\* The timeout callback of scheduleUpdate (624-627).
DebounceTimeout(t) ==
  /\ t \in debounceTimers
  /\ t.left = 0
  /\ debounceTimers' = debounceTimers \ {t}
  /\ pendingUpdate' = FALSE
  /\ UpdateAllLayers
  /\ burstFires' = burstFires + 1
  /\ UNCHANGED <<layers, layerObj, nextLayerId, inflight, materialCache, dropHidden,
                 notification, particleCount, ctlVars, updateTimeout, nextTimerId,
                 sinceCall, burstCalls>>

\* TimeStep ms pass.
Advance ==
  /\ NoTimerDue
  /\ debounceTimers' = {[t EXCEPT !.left = @ - TimeStep] : t \in debounceTimers}
  /\ sinceCall' = IF sinceCall < 0 THEN sinceCall
                  ELSE Min(sinceCall + TimeStep, DebounceDelay + TimeStep)
  /\ UNCHANGED <<stackVars, ctlVars, pendingUpdate, updateTimeout, nextTimerId,
                 burstCalls, burstFires>>

(***************************************************************************)
(* Particle motion.  particleData keeps, per layer id, the scale of the    *)
(* layer's group and the animation data of one fill and one outline        *)
(* particle of the layer (layer.instanceData[i] of a batched layer,        *)
(* particle.userData of a per-object one): the updaters run the same code  *)
(* on every particle of a layer.  Lengths are in tenths of a unit, depth   *)
(* factors in quarters.                                                    *)
(***************************************************************************)
DefaultDepth == 20

DepthValues == {0, DefaultDepth}

ScaleValues == {1, 2}

\* settings.minSize and settings.maxSize, the two ends of the random size.
SizeChoices == {5, 15}

\* Values of Math.random() used as depth factor.
DepthFactors == {1, 3}

\* Values of the noise field and of the sine term of the z offset.
NoiseValues == {0, 5}

\* getSettings (2382-2419), the fields the render tick and the builders read.  For a
\* checkbox, `x?.checked || true` is true whatever the checkbox shows.
GetSettings ==
  [noiseMovement |-> ctlNoise \/ TRUE,
   mouseInteraction |-> ctlMouse \/ TRUE,
   sandEffect |-> ctlSand \/ FALSE,
   svgDepth |-> ctlDepth,
   svgScale |-> ctlScale,
   useGradient |-> ctlGradient \/ TRUE,
   preserveColors |-> ctlPreserve \/ FALSE]

\* The z of a sample point of the rasterizer (1422-1424).
RasterZ(fq, depth) == IF depth > 0 THEN ((fq - 2) * depth) \div 2 ELSE 0

\* depthFactor as the builders store it (1800, 1879).
StoredDepthFactor(z, depth, rnd) == IF z # 0 THEN (2 * z) \div depth + 1 ELSE rnd

\* zPos of updateLayerDepth (704, 721).
DepthZ(fq, depth) == ((fq - 2) * depth) \div 2

\* size of a new particle (1759-1760, 1850-1851).
ParticleSize(base, isStroke) == IF isStroke THEN (base * 8) \div 10 ELSE base

\* The data of a new particle (1796-1812, 1869-1894): the matrix or mesh is
\* scaled by size; noise and angle count the advances since the build.
NewParticle(isStroke, base, fq, depth) ==
  LET z == RasterZ(fq, depth)
  IN  [isStroke |-> isStroke, size |-> ParticleSize(base, isStroke),
       scale |-> ParticleSize(base, isStroke), origz |-> z,
       depthFactor |-> StoredDepthFactor(z, depth, fq),
       noise |-> 0, angle |-> 0, offz |-> 0, pulled |-> FALSE]

\* The particle data of layer L after createParticles (1587-1597).
NewParticleData(L, s) ==
  {[groupScale |-> s.svgScale,
    ps |-> IF L.particles = 0 THEN <<>>
           ELSE <<NewParticle(FALSE, base, fq, s.svgDepth),
                  NewParticle(TRUE, base, fq, s.svgDepth)>>] :
     base \in SizeChoices, fq \in DepthFactors}

NoParticleData == [groupScale |-> 1, ps |-> <<>>]

\* A tick that writes the matrix without the particle's size.
TickScaleMutant(p, batched) == IF batched THEN 10 ELSE p.scale

\* The scale a tick leaves on a particle: the batched updater rewrites the
\* matrix with data.size (2133-2134), the per-object one leaves mesh.scale.
TickScale(p, batched) == IF batched THEN p.size ELSE p.scale

\* data.offset.z in noise mode (2037, 2211).
NoiseOffsetZ(nz, depth) == nz * (IF depth > 0 THEN 1 ELSE 0)

\* One particle in one tick (1989-2134, 2172-2310), without the spring:
\* nz is the value of the noise or sine term, near tells whether the
\* particle is within the interaction radius of the pointer.
StepParticle(p, s, mouseInteraction, batched, nz, near) ==
  LET q == IF s.noiseMovement
             THEN [p EXCEPT !.noise = @ + 1,
                            !.offz = NoiseOffsetZ(nz, s.svgDepth)]
             ELSE [p EXCEPT !.angle = @ + 1,
                            !.offz = IF s.svgDepth > 0 THEN nz ELSE @]
  IN  [q EXCEPT !.offz = IF p.isStroke THEN (@ * 6) \div 5 ELSE @,
                !.pulled = mouseInteraction /\ mousePosition # "origin" /\ near,
                !.scale = TickScale(p, batched)]

\* updateInstancedParticles (1970-2152).
UpdateInstancedParticles(L, d, s, mouseInteraction, nz, near) ==
  IF L.instanceData = 0 THEN d
  ELSE [d EXCEPT !.ps = [i \in DOMAIN d.ps |->
                           StepParticle(d.ps[i], s, mouseInteraction, TRUE,
                                        nz[i], near[i])]]

\* updateTraditionalParticles (2157-2312).
UpdateTraditionalParticles(L, d, s, mouseInteraction, nz, near) ==
  IF L.particles = 0 THEN d
  ELSE [d EXCEPT !.ps = [i \in DOMAIN d.ps |->
                           StepParticle(d.ps[i], s, mouseInteraction, FALSE,
                                        nz[i], near[i])]]

\* The body of updateParticlesAnimation from line 1923 on, on the settings
\* s: every visible layer of the stack goes to one of the two updaters.
UpdateParticles(s) ==
  LET mouseInteraction == s.mouseInteraction /\ mouseMoved
  IN  /\ frames' = frames + 1
      /\ \E nz \in [1..2 -> NoiseValues], near \in [1..2 -> BOOLEAN] :
           particleData' =
             [id \in DOMAIN particleData |->
                IF id \notin Range(layers) \/ ~layerObj[id].visible
                  THEN particleData[id]
                ELSE IF layerObj[id].useInstanced
                  THEN UpdateInstancedParticles(layerObj[id], particleData[id], s,
                                                mouseInteraction, nz, near)
                  ELSE UpdateTraditionalParticles(layerObj[id], particleData[id], s,
                                                  mouseInteraction, nz, near)]
      /\ UNCHANGED <<ctlNoise, ctlMouse, ctlSand, ctlDepth, ctlScale, mouseMoved,
                     mousePosition>>

\* updateParticlesAnimation (1910-1965) as animate calls it.
UpdateParticlesAnimation == UpdateParticles(GetSettings)

\* A render tick whose body raises no exception.
MotionAnimate ==
  /\ Animate(FALSE)
  /\ UpdateParticlesAnimation

\* updateLayerDepth (691-733) on layer L with data d.  On a layer flagged
\* for batched rendering, layer.particles is an array and has no
\* setMatrixAt (and a per-object layer has no instanceData[i]): the first
\* pass of the loop raises a TypeError.
UpdateLayerDepth(L, d, depth, rnd) ==
  IF L.particles = 0 THEN [raised |-> FALSE, data |-> d]
  ELSE IF L.useInstanced
    THEN [raised |-> L.particleCount > 0, data |-> d]
    ELSE [raised |-> FALSE,
          data |-> [d EXCEPT !.ps = [i \in DOMAIN d.ps |->
                      LET f == IF d.ps[i].depthFactor # 0 THEN d.ps[i].depthFactor
                                                          ELSE rnd
                      IN  [d.ps[i] EXCEPT !.depthFactor = f,
                                          !.origz = DepthZ(f, depth)]]]]

\* updateLayersDepth (679-686): the forEach ends at the first exception.
RECURSIVE UpdateLayersDepth(_, _, _, _)
UpdateLayersDepth(stack, data, depth, rnd) ==
  IF stack = <<>> THEN data
  ELSE LET r == UpdateLayerDepth(layerObj[Head(stack)], data[Head(stack)], depth, rnd)
       IN  IF r.raised THEN data
           ELSE UpdateLayersDepth(Tail(stack), [data EXCEPT ![Head(stack)] = r.data],
                                  depth, rnd)

\* The svg-depth control moves to d; when the control is marked live its
\* input listener calls updateLayersDepth (425-427).
SvgDepthInput(d, live) ==
  /\ ctlDepth' = d
  /\ IF live
       THEN \E rnd \in DepthFactors :
              particleData' = UpdateLayersDepth(layers, particleData, d, rnd)
       ELSE UNCHANGED particleData
  /\ UNCHANGED <<ctlNoise, ctlMouse, ctlSand, ctlScale, mouseMoved, mousePosition,
                 frames>>

\* Whether updateLayersDepth (679-686) on the stack ends with an exception:
\* some layer's updateLayerDepth raises one, and the forEach reaches it
\* unless an earlier layer raised.
DepthRaises(stack, data, depth, rnd) ==
  \E k \in DOMAIN stack :
    UpdateLayerDepth(layerObj[stack[k]], data[stack[k]], depth, rnd).raised

\* The input listener of the svg-depth control (425-427), moved to d:
\* updateLayersDepth(d).
UpdateLayersDepthCall(d) ==
  /\ ctlDepth' = d
  /\ \E rnd \in DepthFactors :
       /\ particleData' = UpdateLayersDepth(layers, particleData, d, rnd)
       /\ depthCall' = IF DepthRaises(layers, particleData, d, rnd)
                         THEN "raised" ELSE "done"
  /\ UNCHANGED <<ctlNoise, ctlMouse, ctlSand, ctlScale, mouseMoved, mousePosition,
                 frames>>

\* The svg-scale control moves to v; its input listener calls
\* updateLayersScale (422-424, 665-674).
SvgScaleInput(v) ==
  /\ ctlScale' = v
  /\ particleData' = [id \in DOMAIN particleData |->
                        IF id \in Range(layers)
                          THEN [particleData[id] EXCEPT !.groupScale = v]
                          ELSE particleData[id]]
  /\ UNCHANGED <<ctlNoise, ctlMouse, ctlSand, ctlDepth, mouseMoved, mousePosition,
                 frames>>

\* The noise-movement checkbox is clicked.
NoiseMovementChange ==
  /\ ctlNoise' = ~ctlNoise
  /\ UNCHANGED <<ctlMouse, ctlSand, ctlDepth, ctlScale, mouseMoved, mousePosition,
                 particleData, frames>>

\* The mouse-interaction checkbox is clicked.
MouseInteractionChange ==
  /\ ctlMouse' = ~ctlMouse
  /\ UNCHANGED <<ctlNoise, ctlSand, ctlDepth, ctlScale, mouseMoved, mousePosition,
                 particleData, frames>>

\* updateMousePosition (494-524) with the pointer over the world point pos.
UpdateMousePosition(pos) ==
  /\ IF ctlMouse
       THEN mousePosition' = pos /\ mouseMoved' = TRUE
       ELSE UNCHANGED <<mousePosition, mouseMoved>>
  /\ UNCHANGED <<ctlNoise, ctlMouse, ctlSand, ctlDepth, ctlScale, particleData,
                 frames>>

\* clearMousePosition (565-568).
ClearMousePosition ==
  /\ mousePosition' = "origin"
  /\ mouseMoved' = FALSE
  /\ UNCHANGED <<ctlNoise, ctlMouse, ctlSand, ctlDepth, ctlScale, particleData,
                 frames>>

\* The change listener of the sand-effect checkbox (309-313): the checkbox
\* has changed and updateAllLayers is called.
SandEffectChange ==
  /\ ctlSand' = ~ctlSand
  /\ UpdateAllLayers
  /\ UNCHANGED <<layers, layerObj, nextLayerId, inflight, materialCache, dropHidden,
                 notification, particleCount>>
  /\ UNCHANGED <<ctlNoise, ctlMouse, ctlDepth, ctlScale, mouseMoved, mousePosition,
                 particleData, frames>>

(***************************************************************************)
(* The spring of the sand effect, along the line through the particle and  *)
(* its original position, oriented from the original position towards the  *)
(* particle.  Positions and velocities are kept in 1/1000 of a unit and    *)
(* rounded down to that step.                                              *)
(***************************************************************************)
SpringUnit == 1000

\* Values of the sand-return control.
SandReturnValues == {1, 2, 5}

\* Displacements the pointer leaves a particle with.
Displacements ==
  {SpringUnit \div 4, SpringUnit \div 2, (3 * SpringUnit) \div 4, SpringUnit}

\* The same tick without the damping factor.
SpringVelocityMutant(x, v, sandReturn) == (20 * v - sandReturn * x) \div 20

\* data.velocity after the return force 0.05 * sandReturn towards the
\* target and the damping 0.95 (2109-2116, 2290-2297); x is the position
\* minus the target.
SpringVelocity(x, v, sandReturn) == (19 * (20 * v - sandReturn * x)) \div 400

\* One tick of the sand effect on a particle the pointer does not reach,
\* with a zero procedural offset (2098-2120, 2280-2300): the target is the
\* original position and the position moves by the new velocity.
SpringTick ==
  /\ springVel' = SpringVelocity(springPos, springVel, ctlSandReturn)
  /\ springPos' = springPos + springVel'
  /\ frames' = frames + 1
  /\ UNCHANGED <<ctlSandReturn, ctlNoise, ctlMouse, ctlSand, ctlDepth, ctlScale,
                 mouseMoved, mousePosition, particleData, buildVars, rasterVars,
                 batchVars, resVars, dispVars, colVars, depthVars, orderVars>>

(***************************************************************************)
(* The colour of a particle.  A candidate point p lies in one of two bands *)
(* of the gradient and shows one of two colours in the artwork.            *)
(***************************************************************************)
\* interpolateColors(gradientColor1, gradientColor2, (point.y + 100) / 200).
GradientColor(p) == IF p % 2 = 0 THEN "gradient0" ELSE "gradient1"

\* `rgb(r, g, b)` of the pixel under the point.
CapturedColor(p) == IF (p \div 2) % 2 = 0 THEN "rgb0" ELSE "rgb1"

\* The color the rasterizer stores with a point (1431-1434, 1491-1494).
UserColor(s, p) == IF s.preserveColors THEN CapturedColor(p) ELSE "none"

\* The colour of a particle (1685-1686, 1704-1716, also 1833-1834, 1857-1870).
ResolveColor(s, pointData) ==
  LET useGradient == s.useGradient /\ ~s.preserveColors
  IN  IF s.preserveColors /\ pointData.color # "none" THEN pointData.color
      ELSE IF useGradient THEN GradientColor(pointData.point)
      ELSE IF pointData.isStroke THEN "tint" ELSE "flat"

\* The particles built from the selected points sel (1751-1819, 1845-1899).
BuildParticles(sel, s) ==
  [i \in DOMAIN sel |->
     [point |-> sel[i].point, isStroke |-> sel[i].isStroke,
      color |-> ResolveColor(s, [point |-> sel[i].point,
                                 isStroke |-> sel[i].isStroke,
                                 color |-> UserColor(s, sel[i].point)])]]

\* colorParticleCounts (1696-1722): the count per `${color}_${type}`.
BucketCounts(parts) ==
  LET Key(i) == <<parts[i].color, parts[i].isStroke>>
  IN  [k \in {Key(i) : i \in DOMAIN parts} |->
         Cardinality({i \in DOMAIN parts : Key(i) = k})]

\* One build of the layer from its candidates: createParticles (1578-1602)
\* as img.onload calls it at the import and after every updateLayer.
BuildLayer ==
  /\ \E sel \in (IF Len(fillPoints) + Len(strokePoints) <= ctlParticleCount
                   THEN {AllPoints(fillPoints, strokePoints)}
                   ELSE SelectPoints(fillPoints, strokePoints, ctlParticleCount,
                                     strokeQuota)) :
       /\ builtParticles' = BuildParticles(sel, GetSettings)
       /\ buckets' = Append(buckets, BucketCounts(builtParticles'))
  /\ UNCHANGED <<ctlGradient, ctlPreserve, strokeQuota>>

(***************************************************************************)
(* The fill loop of img.onload (1408-1448) over the pixels of the canvas.  *)
(* A pixel is <<x, y>>; image gives the alpha byte of each.                *)
(***************************************************************************)
AlphaThreshold == 50

\* parseInt(value || 4) of the particle-density control (2386).
DefaultDensity == 4

\* Alpha bytes of a painted pixel: at the threshold, just above, opaque.
AlphaValues == {AlphaThreshold, AlphaThreshold + 1, 255}

Pixels == (0..(MaxCanvas - 1)) \X (0..(MaxCanvas - 1))

SetMax(S) == CHOOSE m \in S : \A x \in S : x <= m

\* The alpha channel of getImageData after clearRect and drawImage
\* (1387-1394): transparent but where the artwork painted.
ImageData(at, alpha) ==
  [p \in Pixels |-> SetMax({0} \cup {alpha[i] : i \in {j \in DOMAIN at : at[j] = p}})]

\* The alpha test with the threshold included.
QualifiesMutant(a) == a >= AlphaThreshold

\* data[index + 3] > 50 (1423).
Qualifies(a) == a > AlphaThreshold

\* The x and y of the point of pixel <<x, y>> (1428-1432), in 1/20 of a unit.
FillPoint(x, y) == <<2 * x - MaxCanvas, MaxCanvas - 2 * y>>

\* The inner loop (1421-1446) from column x of row y.
RECURSIVE RowFill(_, _, _, _)
RowFill(img, samplingStep, y, x) ==
  IF x >= MaxCanvas THEN <<>>
  ELSE (IF Qualifies(img[<<x, y>>]) THEN <<FillPoint(x, y)>> ELSE <<>>)
         \o RowFill(img, samplingStep, y, x + samplingStep)

\* The outer loop (1420-1447) from row y.
RECURSIVE GridFill(_, _, _)
GridFill(img, samplingStep, y) ==
  IF y >= MaxCanvas THEN <<>>
  ELSE RowFill(img, samplingStep, y, 0) \o GridFill(img, samplingStep, y + samplingStep)

\* The fill sampling of one decoded artwork (1408-1448).
RasterFill ==
  /\ rasterPc = "drawn"
  /\ LET samplingDensity == ctlDensity
         samplingStep    == samplingDensity * 2
     IN  rasterFill' = GridFill(image, samplingStep, 0)
  /\ rasterPc' = "sampled"
  /\ UNCHANGED <<image, ctlDensity>>

(***************************************************************************)
(* The batched builder (createInstancedParticles, 1680-1825) and the       *)
(* batched updater's writes (1989-2151).  A mesh is a record of its colour *)
(* key, its capacity and the matrix of each slot; a particle refers to its *)
(* mesh by the position of the mesh among the children of the group.  The  *)
(* matrix of a slot records the point of the particle that wrote it and    *)
(* the frame of the write.                                                 *)
(***************************************************************************)
\* `${color}_${isStroke ? 'stroke' : 'fill'}` (1718, 1775).
ColorKey(p) == <<p.color, p.isStroke>>

\* The keys of colorParticleCounts in insertion order (1696-1722).
RECURSIVE KeyOrder(_, _)
KeyOrder(parts, seen) ==
  IF parts = <<>> THEN <<>>
  ELSE LET k == ColorKey(Head(parts))
       IN  (IF k \in seen THEN <<>> ELSE <<k>>)
             \o KeyOrder(Tail(parts), seen \cup {k})

\* colorParticleCounts.forEach (1725-1742): one InstancedMesh per key, with
\* the count of the key as its capacity.
NewMeshes(parts) ==
  LET counts == BucketCounts(parts)
      keys   == KeyOrder(parts, {})
  IN  [m \in DOMAIN keys |->
         [key |-> keys[m], count |-> counts[keys[m]],
          matrix |-> [slot \in 0..(counts[keys[m]] - 1) |-> "identity"]]]

\* materialsMap.get(colorKey).mesh (1776).
MeshOf(meshes, key) == CHOOSE m \in DOMAIN meshes : meshes[m].key = key

\* mesh.setMatrixAt(index, matrix): a write past the capacity changes no
\* slot.
SetMatrixAt(meshes, m, slot, matrix) ==
  IF slot \in DOMAIN meshes[m].matrix
    THEN [meshes EXCEPT ![m].matrix[slot] = matrix]
    ELSE meshes

\* The placement loop without the increment of nextIndex.
PlaceInstancesMutant(meshes, parts, i, nextIndex) ==
  [j \in DOMAIN parts |->
     [mesh |-> MeshOf(meshes, ColorKey(parts[j])), index |-> 0,
      point |-> parts[j].point, isStroke |-> parts[j].isStroke]]

\* The placement loop (1750-1819) from particle i on: the metadata pushed
\* to layer.instanceData, nextIndex being the counter of each key.
RECURSIVE PlaceInstances(_, _, _, _)
PlaceInstances(meshes, parts, i, nextIndex) ==
  IF i > Len(parts) THEN <<>>
  ELSE LET key == ColorKey(parts[i])
       IN  <<[mesh |-> MeshOf(meshes, key), index |-> nextIndex[key],
              point |-> parts[i].point, isStroke |-> parts[i].isStroke]>>
             \o PlaceInstances(meshes, parts, i + 1,
                               [nextIndex EXCEPT ![key] = @ + 1])

\* The setMatrixAt calls of one pass over instanceData (1784, 2144-2147),
\* from particle i on.
RECURSIVE WriteMatrices(_, _, _, _)
WriteMatrices(meshes, data, i, frame) ==
  IF i > Len(data) THEN meshes
  ELSE WriteMatrices(SetMatrixAt(meshes, data[i].mesh, data[i].index,
                                 [point |-> data[i].point, frame |-> frame]),
                     data, i + 1, frame)

\* createParticles (1578-1602) taking the batched path on the candidates:
\* samplePoints, then createInstancedParticles.
CreateInstancedParticles ==
  /\ batchPc = "sampled"
  /\ \E sel \in SamplePoints(fillPoints, strokePoints, ctlParticleCount) :
       LET parts  == BuildParticles(sel, GetSettings)
           meshes == NewMeshes(parts)
           data   == PlaceInstances(meshes, parts, 1,
                                    [k \in Range(KeyOrder(parts, {})) |-> 0])
       IN  /\ builtParticles' = parts
           /\ batchData' = data
           /\ batchMeshes' = WriteMatrices(meshes, data, 1, 0)
  /\ batchPc' = "built"
  /\ UNCHANGED <<frames, ctlGradient, ctlPreserve, strokeQuota, buckets>>

\* updateInstancedParticles (1961-2151) on the layer: every particle writes
\* the matrix of its slot.
InstancedTick ==
  /\ batchPc = "built"
  /\ frames' = frames + 1
  /\ batchMeshes' = WriteMatrices(batchMeshes, batchData, 1, frames')
  /\ UNCHANGED <<batchData, batchPc>>

(***************************************************************************)
(* Shared resources: the sphere geometry and the cached materials          *)
(* (resourceCache, 82-86).  The material cache is the sequence of the      *)
(* entries of the Map; a material is the number of its construction; a     *)
(* child of a layer group is a record of its geometry and material.  A     *)
(* layer keeps its record after deletion, for the decode still in flight.  *)
(***************************************************************************)
\* resourceCache.particleGeometry (154) and the n-th material, as resources.
Sphere == <<"geometry", 1>>

Material(n) == <<"material", n>>

ResKeys == {<<"c1", "fill">>, <<"c1", "stroke">>, <<"c2", "fill">>}

\* The colour keys of the particles of one build, in order: no particle,
\* one, two of one key, two of one colour, two of one type.
ResBuilds ==
  {<<>>,
   <<<<"c1", "fill">>>>,
   <<<<"c1", "fill">>, <<"c1", "fill">>>>,
   <<<<"c1", "fill">>, <<"c1", "stroke">>>>,
   <<<<"c2", "fill">>, <<"c1", "fill">>>>}

\* Map.has, Map.get, Map.set.
MapHas(entries, key) == \E i \in DOMAIN entries : entries[i].key = key

MapGet(entries, key) ==
  entries[CHOOSE i \in DOMAIN entries : entries[i].key = key].value

MapSet(entries, key, value) ==
  IF MapHas(entries, key)
    THEN [i \in DOMAIN entries |->
            IF entries[i].key = key THEN [key |-> key, value |-> value]
                                    ELSE entries[i]]
    ELSE Append(entries, [key |-> key, value |-> value])

\* createOrGetMaterial without the look-up: a material per call.
CreateOrGetMaterialMutant(c, key) ==
  [cache |-> MapSet(c.cache, key, c.next),
   disposables |-> Append(c.disposables, Material(c.next)),
   next |-> c.next + 1, material |-> c.next]

\* createOrGetMaterial (1317-1345) on the cache state c = [cache,
\* disposables, next]: the state after the call and the material returned.
CreateOrGetMaterial(c, key) ==
  IF MapHas(c.cache, key)
    THEN [cache |-> c.cache, disposables |-> c.disposables, next |-> c.next,
          material |-> MapGet(c.cache, key)]
    ELSE [cache |-> MapSet(c.cache, key, c.next),
          disposables |-> Append(c.disposables, Material(c.next)),
          next |-> c.next + 1, material |-> c.next]

\* The forEach of createTraditionalParticles (1845-1899) over the keys from
\* the i-th on (createInstancedParticles, 1725-1742, asks per key): the
\* cache state, the children added and the pairs returned.
RECURSIVE BuildChildren(_, _, _)
BuildChildren(c, keys, i) ==
  IF i > Len(keys)
    THEN [cache |-> c.cache, disposables |-> c.disposables, next |-> c.next,
          children |-> <<>>, issued |-> {}]
    ELSE LET got  == CreateOrGetMaterial(c, keys[i])
             rest == BuildChildren([cache |-> got.cache,
                                    disposables |-> got.disposables,
                                    next |-> got.next], keys, i + 1)
         IN  [rest EXCEPT
                !.children = <<[geometry |-> Sphere,
                                material |-> got.material]>> \o @,
                !.issued = @ \cup {<<keys[i], got.material>>}]

\* The resources clearLayerParticles (878-904) disposes: the geometry and
\* the material of every child.
ChildResources(children) ==
  {children[i].geometry : i \in DOMAIN children}
    \cup {Material(children[i].material) : i \in DOMAIN children}

\* createLayer and processLayerSVG (787-805, 858-873): the layer is new,
\* nothing is cleared, the decode starts.
ResCreateLayer ==
  /\ ~resTornDown
  /\ resLayers' = Append(resLayers,
                         [inStack |-> TRUE, pending |-> TRUE, children |-> <<>>])
  /\ resDisposed' = {}
  /\ UNCHANGED <<resCache, resDisposables, resIssued, resNextMaterial, resTornDown>>

\* img.onload (1369-1524) for layer l, the selected points having the
\* colour keys `keys`.
ResOnLoad(l, keys) ==
  /\ ~resTornDown
  /\ resLayers[l].pending
  /\ LET b == BuildChildren([cache |-> resCache, disposables |-> resDisposables,
                             next |-> resNextMaterial], keys, 1)
     IN  /\ resCache' = b.cache
         /\ resDisposables' = b.disposables
         /\ resNextMaterial' = b.next
         /\ resIssued' = resIssued \cup b.issued
         /\ resLayers' = [resLayers EXCEPT ![l].children = @ \o b.children,
                                           ![l].pending = FALSE]
  /\ resDisposed' = {}
  /\ UNCHANGED resTornDown

\* updateLayer (909-920) for layer l of the stack.
ResUpdateLayer(l) ==
  /\ ~resTornDown
  /\ resLayers[l].inStack
  /\ ~resLayers[l].pending
  /\ resDisposed' = ChildResources(resLayers[l].children)
  /\ resLayers' = [resLayers EXCEPT ![l].children = <<>>, ![l].pending = TRUE]
  /\ UNCHANGED <<resCache, resDisposables, resIssued, resNextMaterial, resTornDown>>

\* deleteLayer (1192-1235) for layer l of the stack: clearLayerParticles,
\* then cleanupLayerResources (1240-1264) on the emptied particle list.
ResDeleteLayer(l) ==
  /\ ~resTornDown
  /\ resLayers[l].inStack
  /\ resDisposed' = ChildResources(resLayers[l].children)
  /\ resLayers' = [resLayers EXCEPT ![l].children = <<>>, ![l].inStack = FALSE]
  /\ UNCHANGED <<resCache, resDisposables, resIssued, resNextMaterial, resTornDown>>

\* dispose (4233-4285).
ResDispose ==
  /\ ~resTornDown
  /\ resDisposed' = Range(resDisposables)
       \cup UNION {ChildResources(resLayers[l].children) :
                   l \in {k \in DOMAIN resLayers : resLayers[k].inStack}}
  /\ resLayers' = [l \in DOMAIN resLayers |->
                     IF resLayers[l].inStack
                       THEN [resLayers[l] EXCEPT !.children = <<>>,
                                                 !.inStack = FALSE]
                       ELSE resLayers[l]]
  /\ resDisposables' = <<>>
  /\ resCache' = <<>>
  /\ resTornDown' = TRUE
  /\ UNCHANGED <<resIssued, resNextMaterial>>

(***************************************************************************)
(* The x coordinate of one particle through the ticks (2005-2120,          *)
(* 2178-2303): both motion modes assign offset.x the displacement d of     *)
(* the tick.  Lengths are in 1/10 of a unit.  The pointer is away.         *)
(***************************************************************************)
\* Values of the noise or sine term of a tick.
DisplaceValues == {-10, 0, 5, 10}

\* offset.multiplyScalar(1.2).
MultiplyScalar12(x) == (x * 6) \div 5

\* One tick of either updater on the particle p, d being the procedural
\* displacement of the tick: newPosition is the original position plus the
\* offset (2040, 2054), then the offset of an outline particle is scaled
\* (2058-2061), then the spring of the sand effect replaces newPosition
\* (2103-2120).
DisplaceParticle(p, d, sandEffect, sandReturn) ==
  LET newPosition == p.orig + d
      offset      == IF p.isStroke THEN MultiplyScalar12(d) ELSE d
      target      == p.orig + offset
      velocity    == IF sandEffect
                       THEN SpringVelocity(p.pos - target, p.vel, sandReturn)
                       ELSE p.vel
  IN  [p EXCEPT !.d = d, !.offset = offset, !.vel = velocity,
                !.pos = IF sandEffect THEN p.pos + velocity ELSE newPosition]

\* A render tick on the particle.
DisplaceTick ==
  /\ frames' = frames + 1
  /\ \E d \in DisplaceValues :
       dispParticle' = DisplaceParticle(dispParticle, d, GetSettings.sandEffect,
                                        ctlSandReturn)

(***************************************************************************)
(* The colour of the material of one particle (1317-1345, 1833-1869,       *)
(* 3599-3610), for one colour channel.  A style is the channel byte of an  *)
(* `rgb(...)` string; a THREE.Color channel is kept in 1/5 of a byte step, *)
(* so that the factor 1.2 is exact.                                        *)
(***************************************************************************)
\* new THREE.Color(style): a byte above 255 is clamped.
SetStyle(byte) == 5 * Min(byte, 255)

\* color.getStyle(): the channel rounded to a byte.
GetStyle(channel) == (2 * channel + 5) \div 10

\* color.multiplyScalar(1.2).
MultiplyScalar(channel) == (channel * 6) \div 5

\* tintColor(color, 1.2) (3608-3610).
TintColor(style) == GetStyle(MultiplyScalar(SetStyle(style)))

\* interpolateColors(color1, color2, factor) (3599-3603), factor = t / 2.
InterpolateColors(style1, style2, t) ==
  GetStyle(SetStyle(style1) + ((SetStyle(style2) - SetStyle(style1)) * t) \div 2)

\* The colour of the material createOrGetMaterial constructs (1325-1337).
MaterialColor(style, type) ==
  IF type = "stroke" THEN MultiplyScalar(SetStyle(style)) ELSE SetStyle(style)

\* The material chosen for a point (1833-1869; createInstancedParticles
\* resolves the same colour, 1704-1716, and asks for it at 1730).
ParticleMaterial(s, in) ==
  LET preserveColors     == s.preserveColors
      useGradient        == s.useGradient /\ ~preserveColors
      defaultFillColor   == in.color
      defaultStrokeColor == TintColor(in.color)
      type               == IF in.isStroke THEN "stroke" ELSE "fill"
  IN  IF preserveColors /\ in.userColor >= 0
        THEN MaterialColor(in.userColor, type)
      ELSE IF useGradient
        THEN MaterialColor(InterpolateColors(in.gradientColor1, in.gradientColor2,
                                             in.t), type)
      ELSE MaterialColor(IF in.isStroke THEN defaultStrokeColor
                                        ELSE defaultFillColor, type)

\* The material of the particle is chosen.
ColorParticle ==
  /\ colMaterial = -1
  /\ colMaterial' = ParticleMaterial(GetSettings, colInput)
  /\ UNCHANGED <<colInput, ctlGradient, ctlPreserve>>

(***************************************************************************)
(* Reordering the stack by drag and drop.  Indices are those of the code,  *)
(* counted from 0.                                                         *)
(***************************************************************************)
\* Array.prototype.findIndex by layer id: -1 when no layer has the id.
FindIndex(stack, id) ==
  IF \E k \in DOMAIN stack : stack[k] = id
    THEN (CHOOSE k \in DOMAIN stack : stack[k] = id /\ \A j \in 1..(k - 1) : stack[j] # id) - 1
    ELSE -1

\* stack.splice(idx, 1): the stack without the element at idx.
SpliceOut(stack, idx) ==
  [k \in 1..(Len(stack) - 1) |-> IF k <= idx THEN stack[k] ELSE stack[k + 1]]

\* stack.splice(idx, 0, layer): layer inserted at idx, at the end when idx
\* is beyond the last element.
SpliceIn(stack, idx, layer) ==
  LET at == Min(idx, Len(stack))
  IN  [k \in 1..(Len(stack) + 1) |->
         IF k <= at THEN stack[k]
         ELSE IF k = at + 1 THEN layer
         ELSE stack[k - 1]]

ReorderLayerMutant(stack, sourceIdx, targetIdx) ==
  IF sourceIdx = targetIdx
    THEN stack
    ELSE SpliceIn(SpliceOut(stack, sourceIdx), targetIdx, stack[sourceIdx + 1])

\* reorderLayer, the stack it leaves.
ReorderLayer(stack, sourceIdx, targetIdx) ==
  IF sourceIdx = targetIdx
    THEN stack
    ELSE LET layer == stack[sourceIdx + 1]
             adjusted == IF sourceIdx < targetIdx THEN targetIdx - 1 ELSE targetIdx
         IN  SpliceIn(SpliceOut(stack, sourceIdx), adjusted, layer)

\* updateSceneLayerOrder: every group of the stack is removed from the scene
\* and then added back, in the order of the stack.
UpdateSceneLayerOrder(scene, stack) ==
  SelectSeq(scene, LAMBDA g : \A k \in DOMAIN stack : stack[k] # g) \o stack

\* createLayer: the layer is pushed on the stack and its group added to the
\* scene.
OrderCreateLayer ==
  /\ Len(orderLayers) < MaxOrderLayers
  /\ orderNextId <= MaxOrderLayers
  /\ orderLayers' = Append(orderLayers, orderNextId)
  /\ orderScene' = Append(orderScene, orderNextId)
  /\ orderNextId' = orderNextId + 1
  /\ orderLast' = <<>>

\* deleteLayer: the group leaves the scene and the layer leaves the stack.
OrderDeleteLayer(id) ==
  /\ FindIndex(orderLayers, id) # -1
  /\ orderLayers' = SpliceOut(orderLayers, FindIndex(orderLayers, id))
  /\ orderScene' = SelectSeq(orderScene, LAMBDA g : g # id)
  /\ orderLast' = <<>>
  /\ UNCHANGED orderNextId

\* The drop handler of the layer element `over`, for the dragged layer
\* element `dragged`, dropped on its lower half (insertAfter) or upper half.
DropLayer(dragged, over, insertAfter) ==
  LET sourceIdx == FindIndex(orderLayers, dragged)
      overIdx == FindIndex(orderLayers, over)
      targetIdx == IF insertAfter THEN overIdx + 1 ELSE overIdx
  IN  /\ dragged # over
      /\ sourceIdx # -1
      /\ overIdx # -1
      /\ orderLayers' = ReorderLayer(orderLayers, sourceIdx, targetIdx)
      /\ orderScene' = IF sourceIdx = targetIdx
                         THEN orderScene
                         ELSE UpdateSceneLayerOrder(orderScene, orderLayers')
      /\ orderLast' = [before |-> orderLayers, source |-> sourceIdx,
                       target |-> targetIdx]
      /\ UNCHANGED orderNextId

(***************************************************************************)
(* Initial states and specifications.                                      *)
(***************************************************************************)
InitSampleIdle ==
  /\ fillPoints = <<>>
  /\ strokePoints = <<>>
  /\ sampledPoints = <<>>
  /\ samplePc = "idle"
  /\ sampleCount = 0

\* The state after init() (91-109): no layer, the first frame requested.
InitStack ==
  /\ layers = <<>>
  /\ layerObj = <<>>
  /\ nextLayerId = 1
  /\ inflight = <<>>
  /\ materialCache = {}
  /\ dropHidden = FALSE
  /\ notification = ""
  /\ particleCount = 0
  /\ rebuildTimers = <<>>
  /\ rafPending = TRUE
  /\ tickRaised = FALSE

\* No scheduleUpdate call yet (614-615).
InitDebounce ==
  /\ pendingUpdate = FALSE
  /\ updateTimeout = 0
  /\ debounceTimers = {}
  /\ nextTimerId = 1
  /\ sinceCall = -1
  /\ burstCalls = 0
  /\ burstFires = 0

\* The controls at the defaults of getSettings (2382-2419), no pointer
\* event yet (29-30), no particle.
InitSpringIdle ==
  /\ springPos = 0
  /\ springVel = 0
  /\ ctlSandReturn = 1

InitBuildIdle ==
  /\ ctlGradient = TRUE
  /\ ctlPreserve = FALSE
  /\ strokeQuota = 0
  /\ builtParticles = <<>>
  /\ buckets = <<>>

InitRasterIdle ==
  /\ image = <<>>
  /\ ctlDensity = DefaultDensity
  /\ rasterPc = "idle"
  /\ rasterFill = <<>>

InitBatchIdle ==
  /\ batchMeshes = <<>>
  /\ batchData = <<>>
  /\ batchPc = "idle"

\* After init (154-155): the sphere geometry is created and tracked.
InitResourceIdle ==
  /\ resCache = <<>>
  /\ resDisposables = <<Sphere>>
  /\ resLayers = <<>>
  /\ resIssued = {}
  /\ resNextMaterial = 1
  /\ resDisposed = {}
  /\ resTornDown = FALSE

InitDisplaceIdle == dispParticle = <<>>

InitColorIdle ==
  /\ colInput = <<>>
  /\ colMaterial = -1

InitDepthIdle == depthCall = "none"

InitOrderIdle ==
  /\ orderLayers = <<>>
  /\ orderScene = <<>>
  /\ orderNextId = 1
  /\ orderLast = <<>>

InitUnitIdle ==
  /\ InitSpringIdle
  /\ InitBuildIdle
  /\ InitRasterIdle
  /\ InitBatchIdle
  /\ InitResourceIdle
  /\ InitDisplaceIdle
  /\ InitColorIdle
  /\ InitDepthIdle
  /\ InitOrderIdle

InitMotionIdle ==
  /\ InitUnitIdle
  /\ ctlNoise = TRUE
  /\ ctlMouse = TRUE
  /\ ctlSand = FALSE
  /\ ctlDepth = DefaultDepth
  /\ ctlScale = 1
  /\ mouseMoved = FALSE
  /\ mousePosition = "origin"
  /\ particleData = <<>>
  /\ frames = 0

Init ==
  /\ InitMotionIdle
  /\ InitSampleIdle
  /\ InitStack
  /\ InitDebounce
  /\ ctlParticleCount \in TargetCounts
  /\ ctlInstanced \in BOOLEAN

Next ==
  \/ /\ nextLayerId <= MaxLayers
     /\ \E a \in Artworks : ReadSVGFile(a)
     /\ UNCHANGED <<sampleVars, renderVars, ctlVars, debounceVars, motionVars, unitVars>>
  \/ /\ \E id \in DOMAIN layerObj, fault \in BOOLEAN : ImgOnLoad(id, fault)
     /\ UNCHANGED <<sampleVars, renderVars, ctlVars, debounceVars, motionVars, unitVars>>
  \/ /\ \E id \in DOMAIN layerObj : ImgOnError(id)
     /\ UNCHANGED <<sampleVars, renderVars, ctlVars, debounceVars, motionVars, unitVars>>
  \/ /\ \E id \in DOMAIN layerObj : DeleteLayer(id)
     /\ UNCHANGED <<sampleVars, renderVars, ctlVars, debounceVars, motionVars, unitVars>>
  \/ /\ \E id \in DOMAIN layerObj : ToggleLayerVisibility(id)
     /\ UNCHANGED <<sampleVars, renderVars, ctlVars, debounceVars, motionVars, unitVars>>
  \/ /\ Len(rebuildTimers) < MaxRebuildTimers
     /\ GenerateAllLayers
     /\ UNCHANGED <<sampleVars, renderVars, ctlVars, debounceVars, motionVars, unitVars>>
  \/ /\ RebuildTimeout
     /\ UNCHANGED <<sampleVars, renderVars, ctlVars, debounceVars, motionVars, unitVars>>
  \/ /\ \E fault \in BOOLEAN : Animate(fault)
     /\ UNCHANGED <<sampleVars, stackVars, ctlVars, debounceVars, motionVars, unitVars>>

Spec == Init /\ [][Next]_vars

\* One call of createParticles on explicit candidate sets.
InitSample ==
  /\ \E F \in 0..MaxFill, O \in 0..MaxStroke :
        /\ fillPoints = [i \in 1..F |-> i]
        /\ strokePoints = [i \in 1..O |-> F + i]
  /\ ctlParticleCount \in 0..MaxTarget
  /\ ctlInstanced = TRUE
  /\ sampledPoints = <<>>
  /\ samplePc = "start"
  /\ sampleCount = 0
  /\ InitStack
  /\ InitDebounce
  /\ InitMotionIdle

\* createParticles, line 1584: the call of samplePoints.
SampleStep ==
  /\ samplePc = "start"
  /\ sampledPoints' \in SamplePoints(fillPoints, strokePoints, ctlParticleCount)
  /\ samplePc' = "sampled"
  /\ UNCHANGED <<fillPoints, strokePoints, sampleCount>>

\* createParticles, lines 1587-1597: the particles are created from the
\* selected points and layer.particleCount = sampledPoints.length.
BuildStep ==
  /\ samplePc = "sampled"
  /\ sampleCount' = Len(sampledPoints)
  /\ samplePc' = "built"
  /\ UNCHANGED <<fillPoints, strokePoints, sampledPoints>>

NextSample ==
  \/ /\ SampleStep
     /\ UNCHANGED <<stackVars, renderVars, ctlVars, debounceVars, motionVars, unitVars>>
  \/ /\ BuildStep
     /\ UNCHANGED <<stackVars, renderVars, ctlVars, debounceVars, motionVars, unitVars>>

SpecSample == InitSample /\ [][NextSample]_vars

\* Rebuilds of the whole stack and the render loop: imports of an artwork
\* that fails to decode or of one large enough for the batched build, the
\* ends of their decodes, the generate button and its timeout, render ticks.
InitRebuild ==
  /\ InitMotionIdle
  /\ InitSampleIdle
  /\ InitStack
  /\ InitDebounce
  /\ ctlParticleCount = InstancedThreshold
  /\ ctlInstanced \in BOOLEAN

NextRebuild ==
  \/ /\ nextLayerId <= MaxLayers
     /\ \E a \in {"bad", "big"} : ReadSVGFile(a)
     /\ UNCHANGED <<sampleVars, renderVars, ctlVars, debounceVars, motionVars, unitVars>>
  \/ /\ \E id \in DOMAIN layerObj, fault \in BOOLEAN : ImgOnLoad(id, fault)
     /\ UNCHANGED <<sampleVars, renderVars, ctlVars, debounceVars, motionVars, unitVars>>
  \/ /\ \E id \in DOMAIN layerObj : ImgOnError(id)
     /\ UNCHANGED <<sampleVars, renderVars, ctlVars, debounceVars, motionVars, unitVars>>
  \/ /\ Len(rebuildTimers) < MaxRebuildTimers
     /\ GenerateAllLayers
     /\ UNCHANGED <<sampleVars, renderVars, ctlVars, debounceVars, motionVars, unitVars>>
  \/ /\ RebuildTimeout
     /\ UNCHANGED <<sampleVars, renderVars, ctlVars, debounceVars, motionVars, unitVars>>
  \/ /\ \E fault \in BOOLEAN : Animate(fault)
     /\ UNCHANGED <<sampleVars, stackVars, ctlVars, debounceVars, motionVars, unitVars>>

SpecRebuild == InitRebuild /\ [][NextRebuild]_vars

\* The live controls.  The artwork decodes and its build raises no exception.
InitDebounced ==
  /\ InitMotionIdle
  /\ InitSampleIdle
  /\ InitStack
  /\ InitDebounce
  /\ ctlParticleCount \in TargetCounts
  /\ ctlInstanced = TRUE

NextDebounce ==
  \/ /\ nextLayerId <= MaxDebounceLayers
     /\ ReadSVGFile("big")
     /\ UNCHANGED <<sampleVars, renderVars, ctlVars, debounceVars, motionVars, unitVars>>
  \/ /\ \E id \in DOMAIN layerObj : ImgOnLoad(id, FALSE)
     /\ UNCHANGED <<sampleVars, renderVars, ctlVars, debounceVars, motionVars, unitVars>>
  \/ /\ nextTimerId <= MaxScheduleCalls
     /\ NoTimerDue
     /\ \E v \in TargetCounts : LiveInput(v)
     /\ UNCHANGED <<sampleVars, renderVars, motionVars, unitVars>>
  \/ /\ Len(rebuildTimers) < MaxRebuildTimers
     /\ \E t \in debounceTimers : DebounceTimeout(t)
     /\ UNCHANGED <<sampleVars, renderVars, motionVars, unitVars>>
  \/ /\ RebuildTimeout
     /\ UNCHANGED <<sampleVars, renderVars, ctlVars, debounceVars, motionVars, unitVars>>
  \/ /\ Advance
     /\ UNCHANGED <<sampleVars, renderVars, motionVars, unitVars>>

SpecDebounce == InitDebounced /\ [][NextDebounce]_vars

\* One generation of one layer: the state after the import of an artwork and
\* the end of its decode, then render ticks, the pointer, the visibility
\* toggle and the controls that act without a rebuild.
InitMotion ==
  /\ InitUnitIdle
  /\ InitSampleIdle
  /\ InitDebounce
  /\ ctlParticleCount = InstancedThreshold
  /\ ctlInstanced \in BOOLEAN
  /\ ctlNoise = TRUE
  /\ ctlMouse = TRUE
  /\ ctlSand = FALSE
  /\ ctlDepth \in DepthValues
  /\ ctlScale = 1
  /\ mouseMoved = FALSE
  /\ mousePosition = "origin"
  /\ frames = 0
  /\ layers = <<1>>
  /\ nextLayerId = 2
  /\ inflight = << <<>> >>
  /\ \E a \in {"small", "big"} :
       \E out \in CreateParticles(NewLayer(a), ctlParticleCount, ctlParticleCount,
                                  FALSE) :
         /\ layerObj = <<out.layer>>
         /\ materialCache = out.mats
         /\ particleData \in {<<d>> : d \in NewParticleData(out.layer, GetSettings)}
  /\ dropHidden = TRUE
  /\ notification = ""
  /\ particleCount = 0
  /\ rebuildTimers = <<>>
  /\ rafPending = TRUE
  /\ tickRaised = FALSE

NextMotion ==
  \/ /\ frames < MaxFrames
     /\ MotionAnimate
     /\ UNCHANGED <<sampleVars, stackVars, ctlVars, debounceVars, unitVars>>
  \/ /\ \E id \in DOMAIN layerObj : ToggleLayerVisibility(id)
     /\ UNCHANGED <<sampleVars, renderVars, ctlVars, debounceVars, motionVars, unitVars>>
  \/ /\ \E d \in DepthValues, live \in BOOLEAN : SvgDepthInput(d, live)
     /\ UNCHANGED <<sampleVars, stackVars, renderVars, ctlVars, debounceVars, unitVars>>
  \/ /\ \E v \in ScaleValues : SvgScaleInput(v)
     /\ UNCHANGED <<sampleVars, stackVars, renderVars, ctlVars, debounceVars, unitVars>>
  \/ /\ NoiseMovementChange
     /\ UNCHANGED <<sampleVars, stackVars, renderVars, ctlVars, debounceVars, unitVars>>
  \/ /\ MouseInteractionChange
     /\ UNCHANGED <<sampleVars, stackVars, renderVars, ctlVars, debounceVars, unitVars>>
  \/ /\ \E pos \in {"origin", "point"} : UpdateMousePosition(pos)
     /\ UNCHANGED <<sampleVars, stackVars, renderVars, ctlVars, debounceVars, unitVars>>
  \/ /\ ClearMousePosition
     /\ UNCHANGED <<sampleVars, stackVars, renderVars, ctlVars, debounceVars, unitVars>>

SpecMotion == InitMotion /\ [][NextMotion]_vars


\* The two updaters as functions of their settings argument: one layer
\* generation as in SpecMotion, and ticks in which the updaters receive
\* settings whose noiseMovement is either value.
UpdaterTick(noiseMovement) ==
  /\ Animate(FALSE)
  /\ UpdateParticles([GetSettings EXCEPT !.noiseMovement = noiseMovement])

NextUpdater ==
  \/ /\ frames < MaxUpdaterFrames
     /\ \E noiseMovement \in BOOLEAN : UpdaterTick(noiseMovement)
     /\ UNCHANGED <<sampleVars, stackVars, ctlVars, debounceVars, unitVars>>
  \/ /\ \E id \in DOMAIN layerObj : ToggleLayerVisibility(id)
     /\ UNCHANGED <<sampleVars, renderVars, ctlVars, debounceVars, motionVars, unitVars>>
  \/ /\ \E d \in DepthValues, live \in BOOLEAN : SvgDepthInput(d, live)
     /\ UNCHANGED <<sampleVars, stackVars, renderVars, ctlVars, debounceVars, unitVars>>

SpecUpdater == InitMotion /\ [][NextUpdater]_vars

\* The spring alone: the sand effect is on, the pointer has left the canvas
\* and a particle rests displaced from its original position.
InitSpring ==
  /\ InitSampleIdle
  /\ InitStack
  /\ InitDebounce
  /\ ctlParticleCount = InstancedThreshold
  /\ ctlInstanced = TRUE
  /\ ctlNoise = TRUE
  /\ ctlMouse = TRUE
  /\ ctlSand = TRUE
  /\ ctlDepth = DefaultDepth
  /\ ctlScale = 1
  /\ mouseMoved = FALSE
  /\ mousePosition = "origin"
  /\ particleData = <<>>
  /\ frames = 0
  /\ springPos \in Displacements
  /\ springVel = 0
  /\ ctlSandReturn \in SandReturnValues
  /\ InitBuildIdle
  /\ InitRasterIdle
  /\ InitBatchIdle
  /\ InitResourceIdle
  /\ InitDisplaceIdle
  /\ InitColorIdle
  /\ InitDepthIdle
  /\ InitOrderIdle

NextSpring ==
  /\ frames < MaxSpringFrames
  /\ SpringTick
  /\ UNCHANGED <<sampleVars, stackVars, renderVars, ctlVars, debounceVars>>

SpecSpring == InitSpring /\ [][NextSpring]_vars

\* Builds of one layer from the same candidates under the same settings.
InitBuild ==
  /\ InitStack
  /\ InitDebounce
  /\ InitSpringIdle
  /\ InitRasterIdle
  /\ ctlInstanced = TRUE
  /\ ctlNoise = TRUE
  /\ ctlMouse = TRUE
  /\ ctlSand = FALSE
  /\ ctlDepth = DefaultDepth
  /\ ctlScale = 1
  /\ mouseMoved = FALSE
  /\ mousePosition = "origin"
  /\ particleData = <<>>
  /\ frames = 0
  /\ \E F \in 0..MaxBuildFill, O \in 0..MaxBuildStroke :
        /\ fillPoints = [i \in 1..F |-> i]
        /\ strokePoints = [i \in 1..O |-> F + i]
  /\ ctlParticleCount \in 0..MaxBuildTarget
  /\ strokeQuota \in (IF Len(fillPoints) + Len(strokePoints) > ctlParticleCount
                        THEN StrokeCountChoices(Len(fillPoints), Len(strokePoints),
                                                ctlParticleCount)
                        ELSE {0})
  /\ ctlGradient \in BOOLEAN
  /\ ctlPreserve \in BOOLEAN
  /\ sampledPoints = <<>>
  /\ samplePc = "idle"
  /\ sampleCount = 0
  /\ builtParticles = <<>>
  /\ buckets = <<>>
  /\ InitBatchIdle
  /\ InitResourceIdle
  /\ InitDisplaceIdle
  /\ InitColorIdle
  /\ InitDepthIdle
  /\ InitOrderIdle

NextBuild ==
  /\ Len(buckets) < MaxBuilds
  /\ BuildLayer
  /\ UNCHANGED <<sampleVars, stackVars, renderVars, ctlVars, debounceVars, motionVars,
                 springVars, rasterVars, batchVars, resVars, dispVars,
                 colVars, depthVars, orderVars>>

SpecBuild == InitBuild /\ [][NextBuild]_vars

\* The fill sampling of one artwork drawn on the canvas, at one density.
InitRaster ==
  /\ InitSampleIdle
  /\ InitStack
  /\ InitDebounce
  /\ InitSpringIdle
  /\ InitBuildIdle
  /\ ctlParticleCount = InstancedThreshold
  /\ ctlInstanced = TRUE
  /\ ctlNoise = TRUE
  /\ ctlMouse = TRUE
  /\ ctlSand = FALSE
  /\ ctlDepth = DefaultDepth
  /\ ctlScale = 1
  /\ mouseMoved = FALSE
  /\ mousePosition = "origin"
  /\ particleData = <<>>
  /\ frames = 0
  /\ \E k \in 0..MaxInk :
       \E at \in [1..k -> Pixels], alpha \in [1..k -> AlphaValues] :
         image = ImageData(at, alpha)
  /\ ctlDensity \in 1..MaxDensity
  /\ rasterPc = "drawn"
  /\ rasterFill = <<>>
  /\ InitBatchIdle
  /\ InitResourceIdle
  /\ InitDisplaceIdle
  /\ InitColorIdle
  /\ InitDepthIdle
  /\ InitOrderIdle

NextRaster ==
  /\ RasterFill
  /\ UNCHANGED <<sampleVars, stackVars, renderVars, ctlVars, debounceVars, motionVars,
                 springVars, buildVars, batchVars, resVars, dispVars,
                 colVars, depthVars, orderVars>>

SpecRaster == InitRaster /\ [][NextRaster]_vars

\* One batched build of a layer from its candidates, then render ticks.
InitBatch ==
  /\ InitStack
  /\ InitDebounce
  /\ InitSpringIdle
  /\ InitRasterIdle
  /\ ctlInstanced = TRUE
  /\ ctlNoise = TRUE
  /\ ctlMouse = TRUE
  /\ ctlSand = FALSE
  /\ ctlDepth = DefaultDepth
  /\ ctlScale = 1
  /\ mouseMoved = FALSE
  /\ mousePosition = "origin"
  /\ particleData = <<>>
  /\ frames = 0
  /\ \E F \in 0..MaxBatchFill, O \in 0..MaxBatchStroke :
        /\ fillPoints = [i \in 1..F |-> i]
        /\ strokePoints = [i \in 1..O |-> F + i]
  /\ ctlParticleCount \in 0..MaxBatchTarget
  /\ ctlGradient \in BOOLEAN
  /\ ctlPreserve \in BOOLEAN
  /\ sampledPoints = <<>>
  /\ samplePc = "idle"
  /\ sampleCount = 0
  /\ strokeQuota = 0
  /\ builtParticles = <<>>
  /\ buckets = <<>>
  /\ batchMeshes = <<>>
  /\ batchData = <<>>
  /\ batchPc = "sampled"
  /\ InitResourceIdle
  /\ InitDisplaceIdle
  /\ InitColorIdle
  /\ InitDepthIdle
  /\ InitOrderIdle

NextBatch ==
  \/ /\ CreateInstancedParticles
     /\ UNCHANGED <<sampleVars, stackVars, renderVars, ctlVars, debounceVars,
                    ctlNoise, ctlMouse, ctlSand, ctlDepth, ctlScale, mouseMoved,
                    mousePosition, particleData, springVars, rasterVars,
                    resVars, dispVars, colVars, depthVars, orderVars>>
  \/ /\ frames < MaxBatchFrames
     /\ InstancedTick
     /\ UNCHANGED <<sampleVars, stackVars, renderVars, ctlVars, debounceVars,
                    ctlNoise, ctlMouse, ctlSand, ctlDepth, ctlScale, mouseMoved,
                    mousePosition, particleData, springVars, buildVars,
                    rasterVars, resVars, dispVars, colVars, depthVars,
                 orderVars>>

SpecBatch == InitBatch /\ [][NextBatch]_vars

\* The shared resources under imports, decode completions, rebuilds,
\* deletions and the teardown.
InitResource ==
  /\ InitMotionIdle
  /\ InitSampleIdle
  /\ InitStack
  /\ InitDebounce
  /\ ctlParticleCount = InstancedThreshold
  /\ ctlInstanced = TRUE

NextResource ==
  /\ \/ Len(resLayers) < MaxResLayers /\ ResCreateLayer
     \/ \E l \in DOMAIN resLayers, keys \in ResBuilds : ResOnLoad(l, keys)
     \/ \E l \in DOMAIN resLayers : ResUpdateLayer(l)
     \/ \E l \in DOMAIN resLayers : ResDeleteLayer(l)
     \/ ResDispose
  /\ UNCHANGED <<sampleVars, stackVars, renderVars, ctlVars, debounceVars, motionVars,
                 springVars, buildVars, rasterVars, batchVars, dispVars,
                 colVars, depthVars, orderVars>>

SpecResource == InitResource /\ [][NextResource]_vars

\* One built particle, outline or fill, under the render ticks.
InitDisplace ==
  /\ InitSampleIdle
  /\ InitStack
  /\ InitDebounce
  /\ InitBuildIdle
  /\ InitRasterIdle
  /\ InitBatchIdle
  /\ InitResourceIdle
  /\ ctlParticleCount = InstancedThreshold
  /\ ctlInstanced = TRUE
  /\ ctlNoise = TRUE
  /\ ctlMouse = TRUE
  /\ ctlSand \in BOOLEAN
  /\ ctlDepth = DefaultDepth
  /\ ctlScale = 1
  /\ mouseMoved = FALSE
  /\ mousePosition = "origin"
  /\ particleData = <<>>
  /\ frames = 0
  /\ springPos = 0
  /\ springVel = 0
  /\ ctlSandReturn \in SandReturnValues
  /\ \E isStroke \in BOOLEAN, orig \in {0, 100} :
       dispParticle = [isStroke |-> isStroke, orig |-> orig, pos |-> orig,
                       vel |-> 0, offset |-> 0, d |-> 0]
  /\ InitColorIdle
  /\ InitDepthIdle
  /\ InitOrderIdle

NextDisplace ==
  /\ frames < MaxDisplaceFrames
  /\ DisplaceTick
  /\ UNCHANGED <<sampleVars, stackVars, renderVars, ctlVars, debounceVars,
                 ctlNoise, ctlMouse, ctlSand, ctlDepth, ctlScale, mouseMoved,
                 mousePosition, particleData, springVars, buildVars, rasterVars,
                 batchVars, resVars, colVars, depthVars, orderVars>>

SpecDisplace == InitDisplace /\ [][NextDisplace]_vars

\* The material of one particle under the colour settings.
InitColor ==
  /\ InitSampleIdle
  /\ InitStack
  /\ InitDebounce
  /\ InitSpringIdle
  /\ InitRasterIdle
  /\ InitBatchIdle
  /\ InitResourceIdle
  /\ InitDisplaceIdle
  /\ ctlParticleCount = InstancedThreshold
  /\ ctlInstanced = TRUE
  /\ ctlNoise = TRUE
  /\ ctlMouse = TRUE
  /\ ctlSand = FALSE
  /\ ctlDepth = DefaultDepth
  /\ ctlScale = 1
  /\ mouseMoved = FALSE
  /\ mousePosition = "origin"
  /\ particleData = <<>>
  /\ frames = 0
  /\ ctlGradient \in BOOLEAN
  /\ ctlPreserve \in BOOLEAN
  /\ strokeQuota = 0
  /\ builtParticles = <<>>
  /\ buckets = <<>>
  /\ colMaterial = -1
  /\ \E isStroke \in BOOLEAN, t \in 0..2, color \in {0, 100, 250},
        g1 \in {0, 100}, g2 \in {100, 250},
        userColor \in (IF ctlPreserve THEN {50, 250} ELSE {-1}) :
       colInput = [isStroke |-> isStroke, t |-> t, color |-> color,
                   gradientColor1 |-> g1, gradientColor2 |-> g2,
                   userColor |-> userColor]
  /\ InitDepthIdle
  /\ InitOrderIdle

NextColor ==
  /\ ColorParticle
  /\ UNCHANGED <<sampleVars, stackVars, renderVars, ctlVars, debounceVars, motionVars,
                 springVars, strokeQuota, builtParticles, buckets, rasterVars,
                 batchVars, resVars, dispVars, depthVars, orderVars>>

SpecColor == InitColor /\ [][NextColor]_vars

\* A stack of two built layers, each flagged for batched or per-object
\* rendering, under moves of the svg-depth control.
InitDepth ==
  /\ InitSampleIdle
  /\ InitDebounce
  /\ InitSpringIdle
  /\ InitBuildIdle
  /\ InitRasterIdle
  /\ InitBatchIdle
  /\ InitResourceIdle
  /\ InitDisplaceIdle
  /\ InitColorIdle
  /\ ctlParticleCount = InstancedThreshold
  /\ ctlInstanced \in BOOLEAN
  /\ ctlNoise = TRUE
  /\ ctlMouse = TRUE
  /\ ctlSand = FALSE
  /\ ctlDepth \in DepthValues
  /\ ctlScale = 1
  /\ mouseMoved = FALSE
  /\ mousePosition = "origin"
  /\ frames = 0
  /\ layers = <<1, 2>>
  /\ nextLayerId = 3
  /\ inflight = << <<>>, <<>> >>
  /\ \E a \in {"small", "big"}, flagged \in BOOLEAN :
       \E o1 \in CreateParticles([NewLayer(a) EXCEPT !.useInstanced = flagged],
                                 ctlParticleCount, ctlParticleCount, FALSE),
          o2 \in CreateParticles(NewLayer("small"), ctlParticleCount,
                                 ctlParticleCount, FALSE) :
         /\ layerObj = <<o1.layer, o2.layer>>
         /\ materialCache = o1.mats \cup o2.mats
         /\ particleData \in {<<d1, d2>> :
                                d1 \in NewParticleData(o1.layer, GetSettings),
                                d2 \in NewParticleData(o2.layer, GetSettings)}
  /\ dropHidden = TRUE
  /\ notification = ""
  /\ particleCount = 0
  /\ rebuildTimers = <<>>
  /\ rafPending = TRUE
  /\ tickRaised = FALSE
  /\ depthCall = "none"
  /\ InitOrderIdle

NextDepth ==
  /\ \E d \in DepthValues : UpdateLayersDepthCall(d)
  /\ UNCHANGED <<sampleVars, stackVars, renderVars, ctlVars, debounceVars,
                 springVars, buildVars, rasterVars, batchVars, resVars, dispVars,
                 colVars, orderVars>>

SpecDepth == InitDepth /\ [][NextDepth]_vars

\* The stack under imports, deletions and drag-and-drop reordering.
InitOrder ==
  /\ InitMotionIdle
  /\ InitSampleIdle
  /\ InitStack
  /\ InitDebounce
  /\ ctlParticleCount = InstancedThreshold
  /\ ctlInstanced = TRUE

NextOrder ==
  /\ \/ OrderCreateLayer
     \/ \E id \in 1..MaxOrderLayers : OrderDeleteLayer(id)
     \/ \E dragged, over \in 1..MaxOrderLayers, insertAfter \in BOOLEAN :
          DropLayer(dragged, over, insertAfter)
  /\ UNCHANGED <<sampleVars, stackVars, renderVars, ctlVars, debounceVars,
                 motionVars, springVars, buildVars, rasterVars, batchVars,
                 resVars, dispVars, colVars, depthVars>>

SpecOrder == InitOrder /\ [][NextOrder]_vars

\* One layer under rebuild requests whose decodes overlap: the import and
\* the rebuilds of the layer may have up to MaxRaceInflight decodes in
\* flight together.
InitRace ==
  /\ InitMotionIdle
  /\ InitSampleIdle
  /\ InitStack
  /\ InitDebounce
  /\ ctlParticleCount \in TargetCounts
  /\ ctlInstanced \in BOOLEAN

NextRace ==
  /\ \/ nextLayerId <= 1 /\ \E a \in Artworks : ReadSVGFile(a)
     \/ \E id \in DOMAIN layerObj, fault \in BOOLEAN : ImgOnLoad(id, fault)
     \/ \E id \in DOMAIN layerObj : ImgOnError(id)
     \/ Len(rebuildTimers) < MaxRebuildTimers /\ GenerateAllLayers
     \/ RebuildTimeoutWithin(MaxRaceInflight)
  /\ UNCHANGED <<sampleVars, renderVars, ctlVars, debounceVars, motionVars, unitVars>>

SpecRace == InitRace /\ [][NextRace]_vars

\* The sand-effect control: imports of artworks that decode, the ends of
\* their decodes, clicks on the sand-effect checkbox and the timeouts they
\* set.  No other control is touched.
NextSand ==
  \/ /\ nextLayerId <= MaxSandLayers
     /\ \E a \in {"small", "big"} : ReadSVGFile(a)
     /\ UNCHANGED <<sampleVars, renderVars, ctlVars, debounceVars, motionVars, unitVars>>
  \/ /\ \E id \in DOMAIN layerObj : ImgOnLoad(id, FALSE)
     /\ UNCHANGED <<sampleVars, renderVars, ctlVars, debounceVars, motionVars, unitVars>>
  \/ /\ Len(rebuildTimers) < MaxRebuildTimers
     /\ SandEffectChange
     /\ UNCHANGED <<sampleVars, renderVars, ctlVars, debounceVars, unitVars>>
  \/ /\ RebuildTimeout
     /\ UNCHANGED <<sampleVars, renderVars, ctlVars, debounceVars, motionVars, unitVars>>

SpecSand == InitDebounced /\ [][NextSand]_vars

(***************************************************************************)
(* Properties of the point selector (SpecSample).                          *)
(***************************************************************************)
NumCandidates == Len(fillPoints) + Len(strokePoints)

Candidates == Range(fillPoints) \cup Range(strokePoints)

SelectedPoints == {sampledPoints[i].point : i \in DOMAIN sampledPoints}

StrokeFlagged == {i \in DOMAIN sampledPoints : sampledPoints[i].isStroke}

FillFlagged == {i \in DOMAIN sampledPoints : ~sampledPoints[i].isStroke}

\* C1: for all candidate sets and every target T >= 0, samplePoints returns
\* exactly min(T, |F|+|O|) points, never the same candidate twice, and every
\* candidate when |F|+|O| <= T; layer.particleCount after the build is that
\* number.
C1_CountConservation ==
  /\ samplePc \in {"sampled", "built"} =>
       /\ Len(sampledPoints) = Min(ctlParticleCount, NumCandidates)
       /\ \A i, j \in DOMAIN sampledPoints :
            i # j => sampledPoints[i].point # sampledPoints[j].point
       /\ SelectedPoints \subseteq Candidates
       /\ NumCandidates <= ctlParticleCount => SelectedPoints = Candidates
  /\ samplePc = "built" => sampleCount = Min(ctlParticleCount, NumCandidates)

\* A build that had to select: fewer points asked for than candidates of
\* both kinds.
C1_Witness ==
  /\ samplePc = "built"
  /\ fillPoints # <<>>
  /\ strokePoints # <<>>
  /\ 1 < ctlParticleCount
  /\ ctlParticleCount < NumCandidates
  /\ sampleCount = ctlParticleCount

\* C2: for a target T < F+O the selection holds floor(T*O/(F+O)) points
\* flagged as outline, within 1, all of them outline candidates, and the
\* remaining T minus that many are fill candidates flagged as fill; T = 100
\* with F = 1000, O = 0 gives exactly 100 fill points and no outline point.
C2_QuotaProportionality ==
  /\ (samplePc \in {"sampled", "built"} /\ ctlParticleCount < NumCandidates) =>
       LET quota == (ctlParticleCount * Len(strokePoints)) \div NumCandidates
           s     == Cardinality(StrokeFlagged)
       IN  /\ quota - 1 <= s
           /\ s <= quota + 1
           /\ Cardinality(FillFlagged) = ctlParticleCount - s
           /\ \A i \in StrokeFlagged : sampledPoints[i].point \in Range(strokePoints)
           /\ \A i \in FillFlagged : sampledPoints[i].point \in Range(fillPoints)
  /\ SampleCounts(1000, 0, 100) = {[stroke |-> 0, fill |-> 100]}

\* A selection that filled an outline quota and a fill quota.
C2_Witness ==
  /\ samplePc = "sampled"
  /\ ctlParticleCount < NumCandidates
  /\ Cardinality(StrokeFlagged) >= 1
  /\ Cardinality(FillFlagged) >= 2

(***************************************************************************)
(* Properties of the layer stack (Spec).                                   *)
(***************************************************************************)
\* An img.onload / img.onerror callback of layer id runs in this step.
DecodeEnds(id) ==
  /\ id \in DOMAIN inflight
  /\ Len(inflight'[id]) < Len(inflight[id])

\* C3: a layer is built in the batched representation if and only if its
\* useInstanced flag is set and the number of selected points is strictly
\* greater than 500; 500 selected points with the flag set are built per
\* object.
C3_BatchedIffSelectedAboveThreshold ==
  \A id \in Range(layers) :
    layerObj[id].lastBuild = "ok" =>
      (layerObj[id].built = "instanced"
         <=> (layerObj[id].useInstanced
              /\ layerObj[id].particleCount > InstancedThreshold))

\* C4: when the decode of an imported artwork fails, the layer created for
\* the import is not in the stack afterwards and the drop surface is shown.
C4_DecodeFailureRemovesLayer ==
  [][\A id \in DOMAIN layerObj :
       (DecodeEnds(id) /\ ~Decodes(layerObj[id].art)
        /\ layerObj[id].requested = "import")
         => (id \notin Range(layers') /\ ~dropHidden')]_vars

\* C5: the completion callback of a decode whose layer was deleted in the
\* meantime adds nothing to the layer's group, leaves its particleCount at
\* 0 and changes neither the stack nor the material cache.
C5_CompletionAfterDeleteIsNoOp ==
  [][\A id \in DOMAIN layerObj :
       (DecodeEnds(id) /\ Decodes(layerObj[id].art) /\ id \notin Range(layers))
         => /\ layerObj'[id].children = layerObj[id].children
            /\ layerObj'[id].particles = 0
            /\ layerObj'[id].particleCount = 0
            /\ layers' = layers
            /\ materialCache' = materialCache]_vars

\* C6: when an exception is raised while a layer's particles are built, a
\* notification is shown and the layer ends with an empty particle list, no
\* renderable in its group and particleCount 0.
C6_BuildExceptionLeavesLayerEmpty ==
  [][\A id \in DOMAIN layerObj :
       (DecodeEnds(id) /\ layerObj'[id].lastBuild = "buildError")
         => /\ notification' = "Error creating particles."
            /\ layerObj'[id].particles = 0
            /\ layerObj'[id].children = 0
            /\ layerObj'[id].particleCount = 0]_vars

\* C7: whenever a render tick can run, no layer with a decode in flight is
\* both in the stack and visible.
C7_NoInflightLayerShown ==
  rafPending =>
    \A id \in Range(layers) : inflight[id] # <<>> => ~layerObj[id].visible

FullParticleSet(L) ==
  /\ L.particles = Min(L.used, TypeTotal(L.art, "fill") + TypeTotal(L.art, "stroke"))
  /\ L.particleCount = L.particles
  /\ L.children > 0
  /\ L.built = "instanced" => L.instanceData = L.particles

RebuildFailed(L) ==
  L.requested = "rebuild" /\ L.lastBuild \in {"decodeError", "buildError"}

RebuildDone(L) == L.requested = "rebuild" /\ L.lastBuild = "ok"

\* C9: a rebuild of all layers starts the rebuild of every layer of the
\* stack; when one layer's rebuild has failed (decode error or exception in
\* the build), every other layer whose rebuild has completed holds its full
\* particle set; and a render tick stays requested.
C9_RebuildFailureIsIsolated ==
  /\ [][(rebuildTimers # <<>> /\ rebuildTimers' = Tail(rebuildTimers))
          => \A id \in Range(layers) :
               /\ Len(inflight'[id]) = Len(inflight[id]) + 1
               /\ layerObj'[id].requested = "rebuild"
               /\ layerObj'[id].lastBuild = "none"]_vars
  /\ [](\A i, j \in Range(layers) :
          (i # j /\ RebuildFailed(layerObj[i]) /\ RebuildDone(layerObj[j]))
            => FullParticleSet(layerObj[j]))
  /\ []rafPending

\* One layer's rebuild has failed and another one's has completed.
C9_Witness ==
  \E i, j \in Range(layers) :
    /\ i # j
    /\ RebuildFailed(layerObj[i])
    /\ RebuildDone(layerObj[j])
    /\ FullParticleSet(layerObj[j])
    /\ rafPending

\* C10: in every reachable state a next animation frame is requested, also
\* after a tick that raised an exception.
C10_FrameAlwaysPending == rafPending

C10_Witness == tickRaised /\ rafPending

(***************************************************************************)
(* Properties of the debounce (SpecDebounce).                              *)
(***************************************************************************)
\* The timer state that goes with the time since the latest call.
BurstCoalesced ==
  CASE sinceCall < 0 ->
         debounceTimers = {} /\ burstFires = 0
    [] sinceCall >= 0 /\ sinceCall < DebounceDelay ->
         /\ burstFires = 0
         /\ debounceTimers = {[id |-> updateTimeout, left |-> DebounceDelay - sinceCall]}
    [] sinceCall = DebounceDelay ->
         \/ burstFires = 0 /\ debounceTimers = {[id |-> updateTimeout, left |-> 0]}
         \/ burstFires = 1 /\ debounceTimers = {}
    [] OTHER ->
         burstFires = 1 /\ debounceTimers = {}

\* The timeout callback of scheduleUpdate runs in this step.
DebounceFires == burstFires' = burstFires + 1

DebounceTiming ==
  /\ [](Cardinality(debounceTimers) <= 1)
  /\ []BurstCoalesced
  /\ [][DebounceFires => (sinceCall = DebounceDelay /\ burstFires = 0)]_vars

TickStep == frames' = frames + 1

\* The procedural update acted on particle i of layer id in this step.
Updated(id, i) ==
  \/ particleData'[id].ps[i].noise # particleData[id].ps[i].noise
  \/ particleData'[id].ps[i].angle # particleData[id].ps[i].angle

\* C11: every render tick applies the motion update to every particle of
\* every visible layer that holds particles, whichever representation the
\* builder produced for it, and to no particle of a hidden layer.
C11_TickUpdatesVisibleLayers ==
  [][TickStep =>
       \A id \in Range(layers) : \A i \in DOMAIN particleData[id].ps :
         Updated(id, i) <=> layerObj[id].visible]_vars

\* C12: within one generation of a layer, whatever render ticks, scale
\* updates, depth updates and visibility toggles occur, no step changes the
\* stored size of a particle or the scale factor it is rendered with, and
\* the two are equal.
C12_SizeStable ==
  [][\A id \in DOMAIN particleData : \A i \in DOMAIN particleData[id].ps :
       /\ particleData'[id].ps[i].size = particleData[id].ps[i].size
       /\ particleData'[id].ps[i].scale = particleData[id].ps[i].scale
       /\ particleData'[id].ps[i].scale = particleData'[id].ps[i].size]_vars

\* A hidden per-object layer whose particles were moved by a tick, whose
\* group was rescaled and whose depth was updated in place (a z of 0 at
\* the default depth range comes from updateLayerDepth only).
C12_Witness ==
  \E id \in DOMAIN particleData :
    /\ ~layerObj[id].visible
    /\ layerObj[id].built = "traditional"
    /\ particleData[id].groupScale = 2
    /\ ctlDepth = DefaultDepth
    /\ \E i \in DOMAIN particleData[id].ps :
         /\ particleData[id].ps[i].noise > 0
         /\ particleData[id].ps[i].origz = 0

Abs(x) == IF x < 0 THEN 0 - x ELSE x

\* The claim as first stated: with the pointer away, the sand effect on
\* and a zero procedural offset, the distance of a particle to its original
\* position never increases from one frame to the next (no overshoot).
C14_SpringNeverOvershoots ==
  [][springPos' # springPos \/ springVel' # springVel =>
       Abs(springPos') <= Abs(springPos)]_vars

\* 400 times the quadratic form of offset x and velocity v that one tick of
\* the spring multiplies by exactly 0.95 in real arithmetic.
SpringEnergy(x, v, sandReturn) ==
  19 * sandReturn * x * x + (20 - 19 * sandReturn) * x * v + 380 * v * v

\* C14: with the pointer away, the sand effect on and a zero procedural
\* offset, a particle returns to its original position in a decaying
\* oscillation: it may swing past the original position, but the energy of
\* offset and velocity strictly decreases on every frame, so both decay
\* towards 0.
C14_SpringEnergyDecays ==
  [][springPos' # springPos \/ springVel' # springVel =>
       SpringEnergy(springPos', springVel', ctlSandReturn)
         < SpringEnergy(springPos, springVel, ctlSandReturn)]_vars

\* The particle has swung past its original position.
C14_Witness == frames > 0 /\ springPos < 0

(***************************************************************************)
(* Properties of the builds of a layer (SpecBuild).                        *)
(***************************************************************************)
\* The claim as first stated: two builds of the same layer from the same
\* artwork under the same settings give the same particle count in every
\* (colour, outline or fill) bucket, whatever the random choices of the
\* point selector.
C15_RebuildKeepsBucketCounts ==
  \A i, j \in DOMAIN buckets : buckets[i] = buckets[j]

\* The number of outline (isStroke) or fill particles in the buckets b.
RECURSIVE TypeCount(_, _, _)
TypeCount(b, keys, isStroke) ==
  IF keys = {} THEN 0
  ELSE LET k == CHOOSE x \in keys : TRUE
       IN  (IF k[2] = isStroke THEN b[k] ELSE 0)
             + TypeCount(b, keys \ {k}, isStroke)

\* C15: two builds of the same layer from the same artwork under the same
\* settings give the same number of outline particles and the same number
\* of fill particles, hence the same total, whatever the random choices of
\* the point selector; the counts per (colour, outline or fill) bucket are
\* the same too when the candidates do not outnumber the particle count.
C15_RebuildKeepsTypeCounts ==
  \A i, j \in DOMAIN buckets :
    /\ \A t \in BOOLEAN :
         TypeCount(buckets[i], DOMAIN buckets[i], t)
           = TypeCount(buckets[j], DOMAIN buckets[j], t)
    /\ Len(fillPoints) + Len(strokePoints) <= ctlParticleCount
         => buckets[i] = buckets[j]

\* Two builds whose selections fell into different colour buckets.
C15_Witness == Len(buckets) = 2 /\ buckets[1] # buckets[2]

\* The colour the controls ask for: the captured colour when preservation
\* is on and the point carries one, else the gradient when the gradient
\* control is on, else the flat colour (tinted for an outline particle).
ExpectedColor(p) ==
  IF ctlPreserve /\ UserColor(GetSettings, p.point) # "none"
    THEN CapturedColor(p.point)
  ELSE IF ctlGradient THEN GradientColor(p.point)
  ELSE IF p.isStroke THEN "tint" ELSE "flat"

\* C18: every particle of a build has the colour the controls ask for, in
\* the priority captured colour, gradient, flat; in particular with
\* preservation off and the gradient control off every fill particle has
\* the flat colour.
C18_ColourPriority ==
  \A i \in DOMAIN builtParticles :
    builtParticles[i].color = ExpectedColor(builtParticles[i])

(***************************************************************************)
(* Properties of the controls of the render tick (SpecMotion).             *)
(***************************************************************************)
\* C16: in every tick exactly one procedural mode acts on a particle the
\* tick updates, and the noise-movement control selects it: checked, the
\* noise coordinates advance and the phase does not; unchecked, the phase
\* advances and the noise coordinates do not.
C16_ControlSelectsMode ==
  [][TickStep =>
       \A id \in Range(layers) : \A i \in DOMAIN particleData[id].ps :
         LET p == particleData[id].ps[i]
             q == particleData'[id].ps[i]
         IN  Updated(id, i) =>
               IF ctlNoise THEN q.noise = p.noise + 1 /\ q.angle = p.angle
                           ELSE q.angle = p.angle + 1 /\ q.noise = p.noise]_vars

\* C17: a tick adds no pointer force to any particle while the
\* mouse-interaction control is unchecked, also when it was unchecked
\* after the pointer had moved over the canvas, or while the pointer has
\* no valid world position (it left the canvas).
C17_NoForceWithoutPointer ==
  [][TickStep /\ (~ctlMouse \/ ~mouseMoved) =>
       \A id \in DOMAIN particleData : \A i \in DOMAIN particleData[id].ps :
         Updated(id, i) => ~particleData'[id].ps[i].pulled]_vars

(***************************************************************************)
(* Properties of the sand-effect control (SpecSand).                       *)
(***************************************************************************)
\* C19: a click on the sand-effect control rebuilds no layer.  In SpecSand
\* that control is the only one touched, so no step may clear the
\* particles of a built layer, change its particle set or start a decode
\* for it.
C19_SandToggleKeepsLayers ==
  [][\A id \in DOMAIN layerObj :
       layerObj[id].built # "none" =>
         /\ layerObj'[id].built = layerObj[id].built
         /\ layerObj'[id].particles = layerObj[id].particles
         /\ inflight'[id] = inflight[id]]_vars

(***************************************************************************)
(* Properties of the fill sampling (SpecRaster).                           *)
(***************************************************************************)
\* The claim as first stated: when some pixel of the image has an alpha
\* above the threshold, the fill points are not empty, at every density.
C20_FillNonEmpty ==
  rasterPc = "sampled" /\ (\E p \in Pixels : image[p] > AlphaThreshold)
    => rasterFill # <<>>

\* C20: at every density of at least 1 the fill points are not empty
\* exactly when some pixel whose x and y are both multiples of 2 * density
\* has an alpha above the threshold; every fill point is such a pixel.
C20_FillOnGrid ==
  rasterPc = "sampled" =>
    LET grid == {p \in Pixels : /\ p[1] % (2 * ctlDensity) = 0
                                /\ p[2] % (2 * ctlDensity) = 0
                                /\ image[p] > AlphaThreshold}
    IN  /\ rasterFill # <<>> <=> grid # {}
        /\ Range(rasterFill) = {FillPoint(p[1], p[2]) : p \in grid}

\* An image with a pixel above the threshold off the sampling grid and
\* none on it, sampled.
C20_Witness ==
  /\ rasterPc = "sampled"
  /\ \E p \in Pixels : image[p] > AlphaThreshold
  /\ rasterFill = <<>>

(***************************************************************************)
(* Properties of the statistics of the layer stack (Spec).                 *)
(***************************************************************************)
\* C21: whenever no decode is in flight, state.particleCount equals the
\* sum of particleCount over the visible layers of the stack.
C21_StatsEqualVisibleSum ==
  (\A id \in DOMAIN inflight : inflight[id] = <<>>)
    => particleCount = SumVisible(layers, layerObj)

(***************************************************************************)
(* Properties of the batches of a batched layer (SpecBatch).               *)
(***************************************************************************)
\* The particles of the built layer that are held by mesh m.
Members(m) == {i \in DOMAIN batchData : batchData[i].mesh = m}

\* C22: after a batched layer is built and after any number of ticks,
\* there is exactly one mesh per (colour, outline or fill) key, its
\* capacity is the number of particles with that key, its members hold
\* exactly the slots 0..n-1 with no slot shared, every slot carries the
\* matrix its own particle wrote in the latest pass, and the (mesh, slot)
\* pair of a particle never changes.
C22_BatchSlotsFixed ==
  /\ [](batchPc = "built" =>
         /\ Len(batchData) = Len(builtParticles)
         /\ \A m, n \in DOMAIN batchMeshes :
              batchMeshes[m].key = batchMeshes[n].key => m = n
         /\ {batchMeshes[m].key : m \in DOMAIN batchMeshes}
              = {ColorKey(builtParticles[i]) : i \in DOMAIN builtParticles}
         /\ \A i \in DOMAIN batchData :
              /\ batchData[i].mesh \in DOMAIN batchMeshes
              /\ batchMeshes[batchData[i].mesh].key = ColorKey(builtParticles[i])
              /\ batchMeshes[batchData[i].mesh].matrix[batchData[i].index]
                   = [point |-> builtParticles[i].point, frame |-> frames]
         /\ \A m \in DOMAIN batchMeshes :
              /\ batchMeshes[m].count = Cardinality(Members(m))
              /\ {batchData[i].index : i \in Members(m)}
                   = 0..(batchMeshes[m].count - 1)
              /\ \A i, j \in Members(m) :
                   batchData[i].index = batchData[j].index => i = j)
  /\ [][batchPc = "built" =>
          /\ DOMAIN batchData' = DOMAIN batchData
          /\ \A i \in DOMAIN batchData :
               /\ batchData'[i].mesh = batchData[i].mesh
               /\ batchData'[i].index = batchData[i].index
               /\ batchMeshes'[batchData[i].mesh].key
                    = batchMeshes[batchData[i].mesh].key]_vars

\* A built layer with two meshes, one of them holding two particles,
\* after a tick.
C22_Witness ==
  /\ batchPc = "built"
  /\ frames > 0
  /\ Len(batchMeshes) >= 2
  /\ \E m \in DOMAIN batchMeshes : batchMeshes[m].count >= 2

(***************************************************************************)
(* Properties of the shared resources (SpecResource).                      *)
(***************************************************************************)
\* C23: across imports, decode completions, rebuilds and deletions the
\* material cache holds at most one entry per "color_type" key, every entry
\* was tracked for disposal, createOrGetMaterial returns the same material
\* for the same key every time, and no entry leaves the cache or changes
\* its material except by the teardown.
C23_CacheOnePerKey ==
  /\ [](/\ \A i, j \in DOMAIN resCache :
             resCache[i].key = resCache[j].key => i = j
        /\ \A p, q \in resIssued : p[1] = q[1] => p[2] = q[2]
        /\ ~resTornDown =>
             /\ resIssued = {<<resCache[i].key, resCache[i].value>> :
                             i \in DOMAIN resCache}
             /\ \A i \in DOMAIN resCache :
                  Material(resCache[i].value) \in Range(resDisposables))
  /\ [][~resTornDown' => \A i \in DOMAIN resCache :
                            /\ i \in DOMAIN resCache'
                            /\ resCache'[i] = resCache[i]]_vars

\* A layer of the stack with two particles of the same cached material, a
\* second material in the cache, and another layer deleted.
C23_Witness ==
  /\ ~resTornDown
  /\ Len(resCache) >= 2
  /\ \E l \in DOMAIN resLayers :
       /\ resLayers[l].inStack
       /\ Len(resLayers[l].children) >= 2
       /\ resLayers[l].children[1].material = resLayers[l].children[2].material
  /\ \E l \in DOMAIN resLayers : ~resLayers[l].inStack

\* The resources the particles of the layers of the stack are rendered with.
UsedInStack ==
  UNION {ChildResources(resLayers[l].children) :
         l \in {k \in DOMAIN resLayers : resLayers[k].inStack}}

\* The resources resourceCache holds: the sphere geometry and the cached
\* materials.
CacheHeld ==
  {Sphere} \cup {Material(resCache[i].value) : i \in DOMAIN resCache}

\* C28: clearing, rebuilding or deleting a layer disposes no geometry and
\* no material that particles of a layer of the stack still use or that
\* the resource cache still holds.
C28_NoSharedDisposal ==
  ~resTornDown => resDisposed \cap (UsedInStack \cup CacheHeld) = {}

(***************************************************************************)
(* Properties of the displacement of a particle (SpecDisplace).            *)
(***************************************************************************)
\* C24: with the sand effect off and the pointer away, the position a tick
\* renders is the original position plus 1.2 times the displacement of the
\* tick for an outline particle, and plus the displacement for a fill
\* particle.
C24_OutlineDisplacementScaled ==
  frames > 0 /\ ~GetSettings.sandEffect =>
    dispParticle.pos = dispParticle.orig
                         + (IF dispParticle.isStroke
                              THEN (dispParticle.d * 6) \div 5
                              ELSE dispParticle.d)

(***************************************************************************)
(* Properties of the material colours (SpecColor).                         *)
(***************************************************************************)
\* C25: the material of an outline particle has the flat colour brightened
\* by 1.2 exactly once in flat mode, and in gradient mode the colour a fill
\* particle at the same height gets, without brightening.
C25_OutlineColour ==
  colMaterial # -1 /\ colInput.isStroke =>
    LET s        == GetSettings
        captured == s.preserveColors /\ colInput.userColor >= 0
        gradient == s.useGradient /\ ~s.preserveColors
    IN  /\ ~captured /\ ~gradient
          => colMaterial = (SetStyle(colInput.color) * 6) \div 5
        /\ ~captured /\ gradient
          => colMaterial = ParticleMaterial(s, [colInput EXCEPT !.isStroke = FALSE])

(***************************************************************************)
(* Properties of the depth factor (SpecMotion).                            *)
(***************************************************************************)
\* C26: for every particle with z # 0 under a depth range D > 0, the stored
\* depth factor f lies in [0, 1) (0..3 in quarters) and z = (f - 0.5) * 2 * D,
\* so that updateLayerDepth with the same D leaves z unchanged.
C26_DepthFactorInvertsZ ==
  \A id \in DOMAIN particleData : \A i \in DOMAIN particleData[id].ps :
    LET p == particleData[id].ps[i]
    IN  p.origz # 0 /\ ctlDepth > 0 =>
          /\ p.depthFactor \in 0..3
          /\ p.origz = DepthZ(p.depthFactor, ctlDepth)

(***************************************************************************)
(* Properties of the depth update of the stack (SpecDepth).                *)
(***************************************************************************)
\* C29: updateLayersDepth(d) ends without an exception, and afterwards
\* every particle of every layer of the stack, batched or per-object, has
\* z = d * (f - 0.5) * 2 for its stored depth factor f; a layer flagged for
\* batched rendering does not keep the layers after it from being updated.
C29_DepthUpdateCompletes ==
  depthCall # "none" =>
    /\ depthCall = "done"
    /\ \A k \in DOMAIN layers : \A i \in DOMAIN particleData[layers[k]].ps :
         LET p == particleData[layers[k]].ps[i]
         IN  p.origz = DepthZ(p.depthFactor, ctlDepth)

(***************************************************************************)
(* Properties of reordering (SpecOrder).                                   *)
(***************************************************************************)
Without(stack, id) == SelectSeq(stack, LAMBDA x : x # id)

\* C30: right after reorderLayer(source, target) with valid indices, the
\* stack holds the same layers, none lost or duplicated; the other layers
\* keep their relative order; the moved layer stands immediately before the
\* layer that was at index target, or last when target was the length of
\* the stack; nothing changed when source equals target; and the layer
\* groups of the scene are in the order of the stack.
C30_ReorderMovesOneLayer ==
  orderLast # <<>> =>
    LET before == orderLast.before
        source == orderLast.source
        target == orderLast.target
        moved == before[source + 1]
        at == FindIndex(orderLayers, moved)
    IN  /\ Len(orderLayers) = Len(before)
        /\ {orderLayers[k] : k \in DOMAIN orderLayers} = {before[k] : k \in DOMAIN before}
        /\ Without(orderLayers, moved) = Without(before, moved)
        /\ source = target => orderLayers = before
        /\ (source # target /\ target = Len(before)) => at = Len(before) - 1
        /\ (source # target /\ target < Len(before)) =>
             /\ at + 2 <= Len(orderLayers)
             /\ orderLayers[at + 2] = before[target + 1]
        /\ orderScene = orderLayers

C30_Witness ==
  /\ orderLast # <<>>
  /\ Len(orderLayers) >= 3
  /\ orderLast.source + 1 < orderLast.target
  /\ orderLast.target < Len(orderLayers)

(***************************************************************************)
(* Properties of overlapping rebuilds of one layer (SpecRace).             *)
(***************************************************************************)
\* C27: once no decode of a layer is in flight and its latest build ended
\* without an exception, the particles attached to the layer's group are as
\* many as layer.particleCount and each of them is in the layer's particle
\* list: nothing is left over from an earlier rebuild, however the rebuild
\* requests and the decode completions were interleaved.
C27_NoLeftoverParticles ==
  \A k \in DOMAIN layers :
    LET L == layerObj[layers[k]]
    IN  (inflight[layers[k]] = <<>> /\ L.lastBuild = "ok") =>
          /\ L.built = "traditional" =>
               (L.children = L.particleCount /\ L.children = L.particles)
          /\ L.built = "instanced" => L.instanceData = L.particleCount

====
